---- MODULE Spec2Model ----
(***************************************************************************)
(* Model of the audio graph engine: the DirectedGraph with its cached      *)
(* orders (directed_graph.rs) and the AudioGraph built on it               *)
(* (audio_engine_core/src/audio_graph.rs), with the AudioBuffer view and   *)
(* the buffer utilities the real-time process loop uses.                   *)
(*                                                                         *)
(* Samples are f32 in the source; the model uses small integers, on which  *)
(* f32 addition is exact.                                                  *)
(***************************************************************************)
EXTENDS Integers, Sequences, FiniteSets, TLC

VARIABLES
    debug_assertions,   \* build profile: TRUE = debug_assert! is compiled in
    graph,              \* AudioGraph.graph : DirectedGraph<usize>
    nodes,              \* AudioGraph.nodes : NodeId -> node object
    next_node_id,       \* AudioGraph.next_node_id
    sample_rate,        \* AudioGraph.sample_rate
    max_buffer_size,    \* AudioGraph.max_buffer_size
    node_outputs,       \* AudioGraph.node_outputs : NodeId -> Vec<f32>
    tmp_input_buffer,   \* AudioGraph.tmp_input_buffer : Vec<f32>
    pc,                 \* idle: no call in progress; done: an operation has returned and the
                        \* caller holds its result; fault: process panicked
    call,               \* arguments of the last process call
    buffer,             \* the caller's buffer (backing slice of the AudioBuffer)
    handed,             \* per node: the slice handed to node.process in this block
    produced,           \* per node: the slice node.process left behind in this block
    invoked,            \* the node ids in the order node.process was called in this block
    prepared,           \* history: AudioGraph::prepare has been called
    last,               \* history: the last control operation and what it returned
    rings,              \* the SharedRingBuffer behind each Arc<Mutex<..>> handle
    tap_in,             \* a TapIn driven directly, as in tap_test.rs
    tap_out,            \* the TapOut made from tap_in.shared_buffer()
    tap_history,        \* history: what tap_in was fed since its last prepare / reset
    impulse,            \* an ImpulseGenerator driven directly
    impulse_history,    \* history: process calls since ImpulseGenerator::new / reset
    locks,              \* number of Mutex::lock calls the last process call made
    issued,             \* history: the NodeIds add_node has returned so far
    updated,            \* history: the last operation called update_cache
    service             \* the AudioEngineService that owns the graph, and its audio callback

vars == << debug_assertions, graph, nodes, next_node_id, sample_rate,
           max_buffer_size, node_outputs, tmp_input_buffer, pc, call, buffer,
           handed, produced, invoked, prepared, last, rings, tap_in, tap_out,
           tap_history, impulse, impulse_history, locks, issued, updated,
           service >>

audioVars == << nodes, next_node_id, sample_rate, max_buffer_size,
                node_outputs, tmp_input_buffer, prepared, issued >>

processVars == << pc, call, buffer, handed, produced, invoked >>

\* the nodes that are driven directly, outside a graph, and their histories,
\* and the service, which no operation of the graph touches
unitVars == << tap_in, tap_out, tap_history, impulse, impulse_history, locks,
              service >>

----------------------------------------------------------------------------
(* Bounds *)

\* node identifiers of the model are 0 .. MaxNodes - 1
MaxNodes == 3

NodeIds == 0 .. (MaxNodes - 1)

----------------------------------------------------------------------------
(* Helpers for HashMap and Vec values *)

\* the empty HashMap / the empty Vec
EmptyMap == << >>

\* HashMap::insert
MapInsert(m, k, v) == [x \in (DOMAIN m) \cup {k} |-> IF x = k THEN v ELSE m[x]]

\* HashMap::remove
MapRemove(m, k) == [x \in (DOMAIN m) \ {k} |-> m[x]]

\* Vec::contains
Contains(s, x) == \E i \in 1 .. Len(s) : s[i] = x

\* Vec::retain(|&n| n != x)
RetainNot(s, x) == SelectSeq(s, LAMBDA n : n # x)

\* Vec::reverse
Reverse(s) == [i \in 1 .. Len(s) |-> s[Len(s) + 1 - i]]

\* The iteration order of a std HashMap is unspecified (it depends on the
\* per-map random hasher state and on the insertion history).  Every
\* traversal of adjacency_list takes one order: a permutation of its keys.
KeyOrders(S) ==
    { s \in [1 .. Cardinality(S) -> S] :
        \A i, j \in 1 .. Cardinality(S) : i # j => s[i] # s[j] }

\* adjacency_list.keys() under the iteration order iter
Keys(adj, iter) == SelectSeq(iter, LAMBDA k : k \in DOMAIN adj)

----------------------------------------------------------------------------
(* DirectedGraph (directed_graph.rs) *)

\* DirectedGraph::new
DirectedGraph_new ==
    [ adjacency_list           |-> EmptyMap,
      cached_topo_sort         |-> << >>,
      cached_reverse_topo_sort |-> << >>,
      cached_input_nodes       |-> EmptyMap ]

\* adjacency_list.get(&n): the successor list, empty for an absent key
Neighbors(adj, n) == IF n \in DOMAIN adj THEN adj[n] ELSE << >>

RECURSIVE would_create_cycle_loop(_, _, _, _)
\* the while-let loop of would_create_cycle: stack is popped at its end
would_create_cycle_loop(adj, from_id, stack, visited) ==
    IF stack = << >> THEN FALSE
    ELSE LET current == stack[Len(stack)]
             rest    == SubSeq(stack, 1, Len(stack) - 1)
         IN  IF current = from_id THEN TRUE
             ELSE IF current \in visited
                  THEN would_create_cycle_loop(adj, from_id, rest, visited)
                  ELSE would_create_cycle_loop(adj, from_id,
                           rest \o Neighbors(adj, current),
                           visited \cup {current})

\* a cycle check that looks at the proposed target only, not at what it reaches
would_create_cycle_shallow(adj, from_id, to_id) == to_id = from_id

\* a cycle check that searches in the wrong direction: from from_id for to_id
would_create_cycle_forward(adj, from_id, to_id) ==
    would_create_cycle_loop(adj, to_id, << from_id >>, {})

\* DirectedGraph::would_create_cycle
would_create_cycle(adj, from_id, to_id) ==
    would_create_cycle_loop(adj, from_id, << to_id >>, {})

RECURSIVE visit(_, _, _)
RECURSIVE visit_neighbors(_, _, _, _)
\* the for loop over neighbors inside visit
visit_neighbors(adj, neighbors, i, st) ==
    IF i > Len(neighbors) THEN st
    ELSE visit_neighbors(adj, neighbors, i + 1, visit(adj, neighbors[i], st))

\* a visit that appends the node before it descends into its neighbors
visit_preorder(adj, node_id, st) ==
    IF node_id \in st.temp_mark THEN st
    ELSE IF node_id \in st.visited THEN st
    ELSE LET marked == [st EXCEPT !.temp_mark = @ \cup {node_id},
                                  !.result = Append(@, node_id)]
             after  == visit_neighbors(adj, Neighbors(adj, node_id), 1, marked)
         IN  [ visited   |-> after.visited \cup {node_id},
               temp_mark |-> after.temp_mark \ {node_id},
               result    |-> after.result ]

\* DirectedGraph::visit; st = [visited, temp_mark, result]
visit(adj, node_id, st) ==
    IF node_id \in st.temp_mark THEN st
    ELSE IF node_id \in st.visited THEN st
    ELSE LET marked == [st EXCEPT !.temp_mark = @ \cup {node_id}]
             after  == visit_neighbors(adj, Neighbors(adj, node_id), 1, marked)
         IN  [ visited   |-> after.visited \cup {node_id},
               temp_mark |-> after.temp_mark \ {node_id},
               result    |-> Append(after.result, node_id) ]

RECURSIVE topological_sort_loop(_, _, _, _)
\* the for loop over adjacency_list.keys() of topological_sort
topological_sort_loop(adj, keys, i, st) ==
    IF i > Len(keys) THEN st
    ELSE topological_sort_loop(adj, keys, i + 1,
             IF keys[i] \notin st.visited THEN visit(adj, keys[i], st) ELSE st)

\* DirectedGraph::topological_sort, the keys visited in the order iter
topological_sort(adj, iter) ==
    topological_sort_loop(adj, Keys(adj, iter), 1,
        [visited |-> {}, temp_mark |-> {}, result |-> << >>]).result

\* a cache update that stores the order without reversing the copy
update_topological_sort_cache_noreverse(g, iter) ==
    LET order == topological_sort(g.adjacency_list, iter)
    IN  [g EXCEPT !.cached_topo_sort = order,
                  !.cached_reverse_topo_sort = order]

\* DirectedGraph::update_topological_sort_cache
update_topological_sort_cache(g, iter) ==
    LET order         == topological_sort(g.adjacency_list, iter)
        reverse_order == Reverse(order)
    IN  [g EXCEPT !.cached_topo_sort = order,
                  !.cached_reverse_topo_sort = reverse_order]

RECURSIVE update_input_nodes_cache_dst(_, _, _, _)
\* inner loop: for &dst_id in dst_ids, push src_id to the list of dst_id
update_input_nodes_cache_dst(input_nodes, src_id, dst_ids, j) ==
    IF j > Len(dst_ids) THEN input_nodes
    ELSE update_input_nodes_cache_dst(
             IF dst_ids[j] \in DOMAIN input_nodes
             THEN [input_nodes EXCEPT ![dst_ids[j]] = Append(@, src_id)]
             ELSE input_nodes,
             src_id, dst_ids, j + 1)

RECURSIVE update_input_nodes_cache_src(_, _, _, _)
\* outer loop: for (&src_id, dst_ids) in &self.adjacency_list
update_input_nodes_cache_src(adj, keys, i, input_nodes) ==
    IF i > Len(keys) THEN input_nodes
    ELSE update_input_nodes_cache_src(adj, keys, i + 1,
             update_input_nodes_cache_dst(input_nodes, keys[i], adj[keys[i]], 1))

\* a cache update that appends to the lists of the previous cache instead of
\* starting from empty lists
update_input_nodes_cache_append(g, iter) ==
    [g EXCEPT !.cached_input_nodes =
        update_input_nodes_cache_src(g.adjacency_list,
            Keys(g.adjacency_list, iter), 1,
            [k \in DOMAIN g.adjacency_list |->
                IF k \in DOMAIN g.cached_input_nodes
                THEN g.cached_input_nodes[k] ELSE << >>])]

\* DirectedGraph::update_input_nodes_cache
update_input_nodes_cache(g, iter) ==
    [g EXCEPT !.cached_input_nodes =
        update_input_nodes_cache_src(g.adjacency_list,
            Keys(g.adjacency_list, iter), 1,
            [k \in DOMAIN g.adjacency_list |-> << >>])]

\* DirectedGraph::update_cache
update_cache(g, iter) ==
    update_input_nodes_cache(update_topological_sort_cache(g, iter), iter)

\* DirectedGraph::get_topological_order
get_topological_order(g) == g.cached_topo_sort

\* DirectedGraph::get_reverse_topological_order
get_reverse_topological_order(g) == g.cached_reverse_topo_sort

\* DirectedGraph::get_input_node_ids
get_input_node_ids(g, node_id) ==
    IF node_id \in DOMAIN g.cached_input_nodes
    THEN g.cached_input_nodes[node_id]
    ELSE << >>

\* DirectedGraph::contains_node
contains_node(g, node_id) == node_id \in DOMAIN g.adjacency_list

\* The four mutating operations below return [graph, result, update]:
\* graph is the graph with the adjacency as the operation leaves it, result
\* the returned value, and update tells whether the operation goes on to call
\* update_cache (which then traverses the HashMap in some order).

\* an add_node that inserts the empty successor list whether or not the key
\* is there
DirectedGraph_add_node_overwrite(g, node_id) ==
    [graph  |-> [g EXCEPT !.adjacency_list = MapInsert(@, node_id, << >>)],
     result |-> node_id \notin DOMAIN g.adjacency_list,
     update |-> node_id \notin DOMAIN g.adjacency_list]

\* DirectedGraph::add_node
DirectedGraph_add_node(g, node_id) ==
    IF node_id \in DOMAIN g.adjacency_list
    THEN [graph |-> g, result |-> FALSE, update |-> FALSE]
    ELSE [graph  |-> [g EXCEPT !.adjacency_list = MapInsert(@, node_id, << >>)],
          result |-> TRUE, update |-> TRUE]

\* an add_edge that appends the edge before it runs the cycle check
DirectedGraph_add_edge_early_push(g, from_id, to_id) ==
    IF from_id \notin DOMAIN g.adjacency_list
    THEN [graph |-> g, result |-> "NodeNotFound", update |-> FALSE]
    ELSE IF to_id \notin DOMAIN g.adjacency_list
    THEN [graph |-> g, result |-> "NodeNotFound", update |-> FALSE]
    ELSE LET pushed == [g EXCEPT !.adjacency_list[from_id] = Append(@, to_id)]
         IN  IF would_create_cycle(g.adjacency_list, from_id, to_id)
             THEN [graph |-> pushed, result |-> "CycleWouldForm", update |-> FALSE]
             ELSE IF Contains(g.adjacency_list[from_id], to_id)
             THEN [graph |-> g, result |-> "Ok", update |-> FALSE]
             ELSE [graph |-> pushed, result |-> "Ok", update |-> TRUE]

\* an add_edge that runs the cycle check before it looks for the endpoints
DirectedGraph_add_edge_cycle_first(g, from_id, to_id) ==
    IF would_create_cycle(g.adjacency_list, from_id, to_id)
    THEN [graph |-> g, result |-> "CycleWouldForm", update |-> FALSE]
    ELSE IF from_id \notin DOMAIN g.adjacency_list
    THEN [graph |-> g, result |-> "NodeNotFound", update |-> FALSE]
    ELSE IF to_id \notin DOMAIN g.adjacency_list
    THEN [graph |-> g, result |-> "NodeNotFound", update |-> FALSE]
    ELSE IF Contains(g.adjacency_list[from_id], to_id)
    THEN [graph |-> g, result |-> "Ok", update |-> FALSE]
    ELSE [graph  |-> [g EXCEPT !.adjacency_list[from_id] = Append(@, to_id)],
          result |-> "Ok", update |-> TRUE]

\* an add_edge that pushes the successor without looking for it in the list
DirectedGraph_add_edge_push_again(g, from_id, to_id) ==
    IF from_id \notin DOMAIN g.adjacency_list
    THEN [graph |-> g, result |-> "NodeNotFound", update |-> FALSE]
    ELSE IF to_id \notin DOMAIN g.adjacency_list
    THEN [graph |-> g, result |-> "NodeNotFound", update |-> FALSE]
    ELSE IF would_create_cycle(g.adjacency_list, from_id, to_id)
    THEN [graph |-> g, result |-> "CycleWouldForm", update |-> FALSE]
    ELSE [graph  |-> [g EXCEPT !.adjacency_list[from_id] = Append(@, to_id)],
          result |-> "Ok", update |-> TRUE]

\* DirectedGraph::add_edge; the two Err strings of the source are the
\* results NodeNotFound and CycleWouldForm
DirectedGraph_add_edge(g, from_id, to_id) ==
    IF from_id \notin DOMAIN g.adjacency_list
    THEN [graph |-> g, result |-> "NodeNotFound", update |-> FALSE]
    ELSE IF to_id \notin DOMAIN g.adjacency_list
    THEN [graph |-> g, result |-> "NodeNotFound", update |-> FALSE]
    ELSE IF would_create_cycle(g.adjacency_list, from_id, to_id)
    THEN [graph |-> g, result |-> "CycleWouldForm", update |-> FALSE]
    ELSE IF Contains(g.adjacency_list[from_id], to_id)
    THEN [graph |-> g, result |-> "Ok", update |-> FALSE]
    ELSE [graph  |-> [g EXCEPT !.adjacency_list[from_id] = Append(@, to_id)],
          result |-> "Ok", update |-> TRUE]

\* a remove_node that drops the key and leaves the other successor lists alone
DirectedGraph_remove_node_keep_edges(g, node_id) ==
    IF node_id \notin DOMAIN g.adjacency_list
    THEN [graph |-> g, result |-> FALSE, update |-> FALSE]
    ELSE [graph  |-> [g EXCEPT !.adjacency_list = MapRemove(@, node_id)],
          result |-> TRUE, update |-> TRUE]

\* DirectedGraph::remove_node
DirectedGraph_remove_node(g, node_id) ==
    IF node_id \notin DOMAIN g.adjacency_list
    THEN [graph |-> g, result |-> FALSE, update |-> FALSE]
    ELSE LET removed  == MapRemove(g.adjacency_list, node_id)
             retained == [k \in DOMAIN removed |-> RetainNot(removed[k], node_id)]
         IN  [graph  |-> [g EXCEPT !.adjacency_list = retained],
              result |-> TRUE, update |-> TRUE]

\* a remove_edge that takes to_id out of every successor list
DirectedGraph_remove_edge_everywhere(g, from_id, to_id) ==
    IF from_id \in DOMAIN g.adjacency_list
    THEN LET removed == Contains(g.adjacency_list[from_id], to_id)
         IN  [graph  |-> IF removed
                         THEN [g EXCEPT !.adjacency_list =
                                  [k \in DOMAIN @ |-> RetainNot(@[k], to_id)]]
                         ELSE g,
              result |-> removed, update |-> removed]
    ELSE [graph |-> g, result |-> FALSE, update |-> FALSE]

\* DirectedGraph::remove_edge
DirectedGraph_remove_edge(g, from_id, to_id) ==
    IF from_id \in DOMAIN g.adjacency_list
    THEN LET neighbors == RetainNot(g.adjacency_list[from_id], to_id)
             removed   == Len(neighbors) < Len(g.adjacency_list[from_id])
         IN  [graph  |-> [g EXCEPT !.adjacency_list[from_id] = neighbors],
              result |-> removed, update |-> removed]
    ELSE [graph |-> g, result |-> FALSE, update |-> FALSE]

\* the graphs an operation that returned r can leave behind: the caches are
\* rebuilt, under some iteration order of the HashMap, when it calls
\* update_cache, and are left as they were when it does not
AfterUpdate(r) ==
    IF r.update
    THEN { update_cache(r.graph, iter) :
               iter \in KeyOrders(DOMAIN r.graph.adjacency_list) }
    ELSE { r.graph }

----------------------------------------------------------------------------
(* AudioBuffer and the buffer utilities (audio_buffer.rs, audio_buffer_utils.rs) *)

\* AudioGraph::new fixes the channel count
num_channels == 2

\* vec![0.0; n]
Zeros(n) == [i \in 1 .. n |-> 0]

\* AudioBuffer::new: the view keeps the WHOLE slice it is given together with
\* the stated shape; only a debug build checks that the two agree.
\* ok = FALSE is the failed debug_assert_eq!.
AudioBuffer_new(channels, samples, slice, debug) ==
    [ ok       |-> (~debug) \/ Len(slice) = channels * samples,
      channels |-> channels,
      frames   |-> samples,
      buffer   |-> slice ]

\* audio_buffer_utils::clear_buffer: slice.fill(0.0)
clear_buffer(slice) == Zeros(Len(slice))

\* audio_buffer_utils::add_buffer
add_buffer(src_slice, dst_slice) ==
    [i \in 1 .. Len(dst_slice) |->
        IF i <= Len(src_slice) THEN dst_slice[i] + src_slice[i] ELSE dst_slice[i]]

\* a copy that replaces the destination by a fresh copy of the source
\* (dst = src.to_vec()) instead of writing into it
copy_buffer_clone(src_slice, dst_slice) ==
    [ ok |-> TRUE, buffer |-> src_slice ]

\* a copy that mixes the source into the destination instead of replacing it
copy_buffer_mix(src_slice, dst_slice) ==
    [ ok     |-> Len(src_slice) = Len(dst_slice),
      buffer |-> IF Len(src_slice) = Len(dst_slice)
                 THEN add_buffer(src_slice, dst_slice) ELSE dst_slice ]

\* audio_buffer_utils::copy_buffer: copy_from_slice panics unless both
\* slices have the same length (ok = FALSE)
copy_buffer(src_slice, dst_slice) ==
    [ ok     |-> Len(src_slice) = Len(dst_slice),
      buffer |-> IF Len(src_slice) = Len(dst_slice) THEN src_slice ELSE dst_slice ]

----------------------------------------------------------------------------
(* Nodes: the marker nodes and the constant node of the engine's tests *)

\* values the constant test nodes are built with
TestValues == { 3 }

\* InputNode::new / OutputNode::new (both are the same no-op marker)
MarkerNode == [kind |-> "Marker", value |-> 0]

\* tests::TestNode::new(value)
TestNode(v) == [kind |-> "TestNode", value |-> v]

\* the nodes add_node is called with
NodeChoices == { MarkerNode } \cup { TestNode(v) : v \in TestValues }

\* AudioGraphNode::prepare of the marker and test nodes: nothing
Node_prepare(node, sr, max_num_samples) == node

\* AudioGraphNode::process: the marker leaves the buffer, the test node
\* overwrites every sample of as_mut_slice() with its value
Node_process(node, view) ==
    [ node   |-> node,
      buffer |-> IF node.kind = "TestNode"
                 THEN [i \in 1 .. Len(view.buffer) |-> node.value]
                 ELSE view.buffer ]

----------------------------------------------------------------------------
(* Concrete nodes: ImpulseGenerator, SineGenerator, TapIn and TapOut          *)
(*                                                                          *)
(* A process operator returns [ok, node, buffer] (and the ring for the taps): *)
(* ok = FALSE is a panic (index out of range, arithmetic overflow).          *)

\* the slice with the n samples after the 0-based index start set to v
\* (for sample in frame.iter_mut() { *sample = v })
FillFrame(slice, start, n, v) ==
    [i \in 1 .. Len(slice) |-> IF i > start /\ i <= start + n THEN v ELSE slice[i]]

\* AudioBuffer::get_mut_frame(idx): the range start..end lies within the slice
FrameInSlice(view, idx) == (idx + 1) * view.channels <= Len(view.buffer)

\* ImpulseGenerator::new
ImpulseGenerator_new == [kind |-> "ImpulseGenerator", impulse_pending |-> TRUE]

RECURSIVE ImpulseGenerator_process_rest(_, _, _)
\* ImpulseGenerator::process, the loop for idx in 1..frames
ImpulseGenerator_process_rest(view, idx, buf) ==
    IF idx >= view.frames THEN [ok |-> TRUE, buffer |-> buf]
    ELSE IF ~FrameInSlice(view, idx) THEN [ok |-> FALSE, buffer |-> buf]
    ELSE ImpulseGenerator_process_rest(view, idx + 1,
             FillFrame(buf, idx * view.channels, view.channels, 0))

\* an impulse generator that writes the impulse and keeps the flag set
ImpulseGenerator_process_keep_pending(node, view) ==
    IF view.frames = 0
    THEN [ok |-> TRUE, node |-> node, buffer |-> view.buffer]
    ELSE IF ~FrameInSlice(view, 0)
    THEN [ok |-> FALSE, node |-> node, buffer |-> view.buffer]
    ELSE LET first == FillFrame(view.buffer, 0, view.channels,
                                IF node.impulse_pending THEN 1 ELSE 0)
             rest  == ImpulseGenerator_process_rest(view, 1, first)
         IN  [ok |-> rest.ok, node |-> node, buffer |-> rest.buffer]

\* ImpulseGenerator::process
ImpulseGenerator_process(node, view) ==
    IF view.frames = 0
    THEN [ok |-> TRUE, node |-> node, buffer |-> view.buffer]
    ELSE IF ~FrameInSlice(view, 0)
    THEN [ok |-> FALSE, node |-> node, buffer |-> view.buffer]
    ELSE LET first == FillFrame(view.buffer, 0, view.channels,
                                IF node.impulse_pending THEN 1 ELSE 0)
             rest  == ImpulseGenerator_process_rest(view, 1, first)
         IN  [ok     |-> rest.ok,
              node   |-> [node EXCEPT !.impulse_pending = FALSE],
              buffer |-> rest.buffer]

\* a reset that flips the flag instead of setting it
ImpulseGenerator_reset_toggle(node) == [node EXCEPT !.impulse_pending = ~@]

\* ImpulseGenerator::reset
ImpulseGenerator_reset(node) == [node EXCEPT !.impulse_pending = TRUE]

\* SineGenerator::new followed by set_frequency(frequency).  phase is kept as
\* the numerator of the source's phase over sample_rate (phase = 0 whenever
\* prepare changes the rate in this model), so that frequency / sample_rate
\* is the integer step frequency.
SineGenerator_new(frequency) ==
    [kind |-> "SineGenerator", frequency |-> frequency, phase |-> 0,
     sample_rate |-> 44100]

\* SineGenerator::prepare
SineGenerator_prepare(node, sr) == [node EXCEPT !.sample_rate = sr]

\* (phase * TAU).sin() for a phase that is a multiple of a quarter turn: 0, 1,
\* 0, -1 (the values test_sine_generator accepts)
QuarterSine(phase, sr) ==
    LET q == ((4 * phase) \div sr) % 4
    IN  IF q = 1 THEN 1 ELSE IF q = 3 THEN 0 - 1 ELSE 0

\* SineGenerator::calculate_sine: the new phase
SineGenerator_next_phase(node) ==
    IF node.phase + node.frequency >= node.sample_rate
    THEN node.phase + node.frequency - node.sample_rate
    ELSE node.phase + node.frequency

RECURSIVE SineGenerator_process_loop(_, _, _, _)
\* SineGenerator::process, the loop for i in 0..num_samples
SineGenerator_process_loop(node, view, i, buf) ==
    IF i >= view.frames THEN [ok |-> TRUE, node |-> node, buffer |-> buf]
    ELSE IF ~FrameInSlice(view, i) THEN [ok |-> FALSE, node |-> node, buffer |-> buf]
    ELSE SineGenerator_process_loop(
             [node EXCEPT !.phase = SineGenerator_next_phase(node)],
             view, i + 1,
             FillFrame(buf, i * view.channels, view.channels,
                       QuarterSine(node.phase, node.sample_rate)))

\* SineGenerator::process
SineGenerator_process(node, view) ==
    SineGenerator_process_loop(node, view, 0, view.buffer)

\* SineGenerator::reset
SineGenerator_reset(node) == [node EXCEPT !.phase = 0]

\* SawGenerator::new, then set_frequency(frequency).  As for the sine
\* generator, frequency and phase are the numerators of the source's values
\* over sample_rate.
SawGenerator_new(frequency) ==
    [kind |-> "SawGenerator", frequency |-> frequency, phase |-> 0,
     sample_rate |-> 44100]

\* SawGenerator::prepare
SawGenerator_prepare(node, sr) == [node EXCEPT !.sample_rate = sr]

\* phase * 2.0 - 1.0, in units of 1 / sample_rate
SawSample(phase, sr) == 2 * phase - sr

\* SawGenerator::calculate_saw: the new phase
SawGenerator_next_phase(node) ==
    IF node.phase + node.frequency >= node.sample_rate
    THEN node.phase + node.frequency - node.sample_rate
    ELSE node.phase + node.frequency

RECURSIVE SawGenerator_process_loop(_, _, _, _)
\* SawGenerator::process, the loop for i in 0..num_samples: sample i of every
\* channel is set to the value
SawGenerator_process_loop(node, view, i, buf) ==
    IF i >= view.frames THEN [ok |-> TRUE, node |-> node, buffer |-> buf]
    ELSE IF ~FrameInSlice(view, i) THEN [ok |-> FALSE, node |-> node, buffer |-> buf]
    ELSE SawGenerator_process_loop(
             [node EXCEPT !.phase = SawGenerator_next_phase(node)],
             view, i + 1,
             FillFrame(buf, i * view.channels, view.channels,
                       SawSample(node.phase, node.sample_rate)))

\* SawGenerator::process
SawGenerator_process(node, view) ==
    IF view.channels = 0 \/ view.frames = 0
    THEN [ok |-> TRUE, node |-> node, buffer |-> view.buffer]
    ELSE SawGenerator_process_loop(node, view, 0, view.buffer)

\* SawGenerator::reset
SawGenerator_reset(node) == [node EXCEPT !.phase = 0]

\* SharedRingBuffer::default()
SharedRingBuffer_default ==
    [sample_rate |-> 0, channels |-> 0, data |-> << >>, write_pos |-> 0]

\* TapIn::new over the ring with handle ring, then set_max_delay_time_ms(ms)
TapIn_new(ring, ms) ==
    [kind |-> "TapIn", max_delay_time_ms |-> ms, shared_buffer |-> ring]

\* TapOut::new(shared) with the handle of a TapIn's ring, then
\* set_delay_time_ms(ms)
TapOut_new(ring, ms) ==
    [kind |-> "TapOut", delay_time_ms |-> ms, shared_buffer |-> ring]

\* ((ms / 1000.0) * sample_rate).ceil() as usize; the inputs of the model are
\* values on which the f32 product is exact
delay_frames(ms, sr) == (ms * sr + 999) \div 1000

\* TapIn::prepare: the ring after the call
TapIn_prepare(node, shared, sr, max_num_samples) ==
    LET max_delay_frames == delay_frames(node.max_delay_time_ms, sr)
        total_frames     == max_delay_frames + max_num_samples
    IN  [sample_rate |-> sr, channels |-> 2,
         data |-> Zeros(total_frames * 2), write_pos |-> 0]

RECURSIVE TapIn_process_loop(_, _, _, _, _)
\* TapIn::process, the two loops flattened over the n = frames * channels
\* samples; k is the 0-based index of the next sample.  Returns [ok, data, wp].
TapIn_process_loop(data, wp, src, k, n) ==
    IF k >= n THEN [ok |-> TRUE, data |-> data, wp |-> wp]
    ELSE IF wp >= Len(data) \/ k >= Len(src)
    THEN [ok |-> FALSE, data |-> data, wp |-> wp]
    ELSE TapIn_process_loop([data EXCEPT ![wp + 1] = src[k + 1]],
                            IF wp + 1 >= Len(data) THEN 0 ELSE wp + 1,
                            src, k + 1, n)

\* TapIn::process without the final shared.write_pos = wp
TapIn_process_keep_pos(shared, view) ==
    LET r == TapIn_process_loop(shared.data, shared.write_pos, view.buffer,
                                0, view.frames * view.channels)
    IN  [ok     |-> r.ok,
         shared |-> [shared EXCEPT !.data = r.data],
         buffer |-> view.buffer]

\* TapIn::process: returns [ok, shared, buffer]
TapIn_process(shared, view) ==
    LET r == TapIn_process_loop(shared.data, shared.write_pos, view.buffer,
                                0, view.frames * view.channels)
    IN  [ok     |-> r.ok,
         shared |-> [shared EXCEPT !.data = r.data,
                                   !.write_pos = IF r.ok THEN r.wp ELSE @],
         buffer |-> view.buffer]

\* TapIn::reset: the ring after the call
TapIn_reset(shared) ==
    [shared EXCEPT !.data = Zeros(Len(shared.data)), !.write_pos = 0]

RECURSIVE TapOut_process_loop(_, _, _, _, _)
\* TapOut::process, the two copy loops flattened over the n samples.
\* Returns [ok, buffer].
TapOut_process_loop(data, rp, dst, k, n) ==
    IF k >= n THEN [ok |-> TRUE, buffer |-> dst]
    ELSE IF rp >= Len(data) \/ k >= Len(dst)
    THEN [ok |-> FALSE, buffer |-> dst]
    ELSE TapOut_process_loop(data,
                             IF rp + 1 >= Len(data) THEN 0 ELSE rp + 1,
                             [dst EXCEPT ![k + 1] = data[rp + 1]],
                             k + 1, n)

\* TapOut::process: the effective delay in frames
effective_delay_frames(node, shared, num_frames) ==
    LET frames == delay_frames(node.delay_time_ms, shared.sample_rate)
    IN  IF frames < num_frames THEN num_frames ELSE frames

\* a read position that goes back by the configured delay only, without
\* raising it to the block size
TapOut_read_pos_unclamped(node, shared, view) ==
    LET delay_samples ==
            delay_frames(node.delay_time_ms, shared.sample_rate) * view.channels
    IN  IF shared.write_pos >= delay_samples
        THEN shared.write_pos - delay_samples
        ELSE Len(shared.data) + shared.write_pos - delay_samples

\* a read position that does not wrap: it starts at the write position
TapOut_read_pos_nowrap(node, shared, view) ==
    LET delay_samples ==
            effective_delay_frames(node, shared, view.frames) * view.channels
    IN  IF shared.write_pos >= delay_samples
        THEN shared.write_pos - delay_samples
        ELSE shared.write_pos

\* TapOut::process: read_pos; a negative value is the usize subtraction
\* that overflows
TapOut_read_pos(node, shared, view) ==
    LET delay_samples ==
            effective_delay_frames(node, shared, view.frames) * view.channels
    IN  IF shared.write_pos >= delay_samples
        THEN shared.write_pos - delay_samples
        ELSE Len(shared.data) + shared.write_pos - delay_samples

\* TapOut::process: returns [ok, buffer].  The overflowing subtraction panics
\* in a debug build; in a release build it wraps to an index far beyond the
\* ring, which panics at the first read.
TapOut_process(node, shared, view, debug) ==
    LET read_pos == TapOut_read_pos(node, shared, view)
        n        == view.frames * view.channels
    IN  IF read_pos < 0
        THEN [ok |-> (~debug) /\ n = 0, buffer |-> view.buffer]
        ELSE TapOut_process_loop(shared.data, read_pos, view.buffer, 0, n)

----------------------------------------------------------------------------
(* FeedbackSineSubgraph (nodes/feedback_sine_subgraph.rs)                    *)
(*                                                                          *)
(* The node owns a sine generator, a TapIn and a TapOut on a ring of their  *)
(* own, and a gain.  Every internal step overwrites its one-frame view with *)
(* the ring's content before it uses it, so the sample a step produces      *)
(* depends only on the number of steps taken since new / reset.  The model  *)
(* keeps that number and writes, for the float the sine generator computes  *)
(* in its n-th step, the label 2 n: non-zero, and different for different   *)
(* steps.                                                                   *)

\* GainProcessor::process: every sample is multiplied by the gain num / den
GainProcessor_process(gain, slice) ==
    [i \in 1 .. Len(slice) |-> (slice[i] * gain.num) \div gain.den]

\* the frequency FeedbackSineSubgraph::process derives from the TapOut value
FeedbackSine_freq(tap_out_value) == (tap_out_value + 1) * 490 + 20

\* SineGenerator::calculate_sine in its (steps + 1)-th call: the label of the
\* sample
FeedbackSine_sample(steps) == 2 * (steps + 1)

\* FeedbackSineSubgraph::new
FeedbackSineSubgraph_new ==
    [kind           |-> "FeedbackSineSubgraph",
     sine_generator |-> [frequency |-> 110, steps |-> 0, sample_rate |-> 44100],
     tap_in         |-> [max_delay_time_ms |-> 100],
     tap_out        |-> [delay_time_ms |-> 0],
     gain           |-> [num |-> 1, den |-> 2],
     shared         |-> SharedRingBuffer_default]

\* FeedbackSineSubgraph::prepare: the children are prepared for blocks of one
\* frame
FeedbackSineSubgraph_prepare(node, sr) ==
    [node EXCEPT !.shared = TapIn_prepare(node.tap_in, @, sr, 1),
                 !.sine_generator.sample_rate = sr]

\* FeedbackSineSubgraph::process, the end of the loop body: tap_in writes the
\* frame that the gain produced. Returns [ok, node, slice].
FeedbackSineSubgraph_feed(node, internal_buffer, tap_out_value, gained) ==
    LET write == TapIn_process(node.shared,
                               [internal_buffer EXCEPT !.buffer = gained])
    IN  [ok    |-> write.ok,
         node  |-> [node EXCEPT
                       !.sine_generator.frequency = FeedbackSine_freq(tap_out_value),
                       !.sine_generator.steps = @ + 1,
                       !.shared = write.shared],
         slice |-> gained]

\* FeedbackSineSubgraph::process, the loop body after tap_out.process has
\* returned read: set_frequency, sine, gain, tap_in. Returns [ok, node, slice].
FeedbackSineSubgraph_generate(node, channels, internal_buffer, read) ==
    IF ~read.ok \/ Len(read.buffer) < channels
    THEN [ok |-> FALSE, node |-> node, slice |-> read.buffer]
    ELSE FeedbackSineSubgraph_feed(
             node, internal_buffer, read.buffer[1],
             GainProcessor_process(
                 node.gain,
                 FillFrame(read.buffer, 0, channels,
                           FeedbackSine_sample(node.sine_generator.steps))))

\* FeedbackSineSubgraph::process, the body of the loop on the window slice of
\* the caller's buffer: tap_out, set_frequency, sine, gain, tap_in.
\* Returns [ok, node, slice].
FeedbackSineSubgraph_step(node, channels, slice, debug) ==
    LET internal_buffer == AudioBuffer_new(channels, 1, slice, debug)
    IN
    IF ~internal_buffer.ok THEN [ok |-> FALSE, node |-> node, slice |-> slice]
    ELSE FeedbackSineSubgraph_generate(
             node, channels, internal_buffer,
             TapOut_process(node.tap_out, node.shared, internal_buffer, debug))

\* the window of the i-th step: samples i .. i + channels of the buffer
\* (0-based, end excluded)
FeedbackSineSubgraph_window(buf, channels, i) == SubSeq(buf, i + 1, i + channels)

\* the caller's buffer after the i-th step has written slice through its window
FeedbackSineSubgraph_written(buf, channels, i, slice) ==
    [k \in 1 .. Len(buf) |->
        IF k > i /\ k <= i + channels THEN slice[k - i] ELSE buf[k]]

RECURSIVE FeedbackSineSubgraph_process_loop(_, _, _, _, _)
RECURSIVE FeedbackSineSubgraph_process_next(_, _, _, _, _)
\* FeedbackSineSubgraph::process, the loop for i in 0..num_frames; get_mut
\* returns None, and unwrap panics, when the window leaves the buffer.
\* Returns [ok, node, buffer].
FeedbackSineSubgraph_process_loop(node, view, i, buf, debug) ==
    IF i >= view.frames THEN [ok |-> TRUE, node |-> node, buffer |-> buf]
    ELSE IF i + view.channels > Len(buf)
    THEN [ok |-> FALSE, node |-> node, buffer |-> buf]
    ELSE FeedbackSineSubgraph_process_next(
             view, i,
             FeedbackSineSubgraph_step(
                 node, view.channels,
                 FeedbackSineSubgraph_window(buf, view.channels, i), debug),
             buf, debug)

\* FeedbackSineSubgraph::process, the loop after step i has returned r: the
\* next iteration runs on the buffer that the step wrote
FeedbackSineSubgraph_process_next(view, i, r, buf, debug) ==
    IF ~r.ok
    THEN [ok |-> FALSE, node |-> r.node,
          buffer |-> FeedbackSineSubgraph_written(buf, view.channels, i, r.slice)]
    ELSE FeedbackSineSubgraph_process_loop(
             r.node, view, i + 1,
             FeedbackSineSubgraph_written(buf, view.channels, i, r.slice), debug)

\* FeedbackSineSubgraph::process
FeedbackSineSubgraph_process(node, view, debug) ==
    FeedbackSineSubgraph_process_loop(node, view, 0, view.buffer, debug)

\* FeedbackSineSubgraph::reset
FeedbackSineSubgraph_reset(node) ==
    [node EXCEPT !.sine_generator.steps = 0, !.shared = TapIn_reset(@)]

----------------------------------------------------------------------------
(* Box<dyn AudioGraphNode>: the call goes to the implementation of the node. *)
(* rs is the heap of shared rings; locks counts the Mutex::lock calls made.  *)

\* node.prepare(sample_rate, max_num_samples): returns [node, rings]
AudioGraphNode_prepare(node, rs, sr, max_num_samples) ==
    IF node.kind = "TapIn"
    THEN [node  |-> node,
          rings |-> [rs EXCEPT ![node.shared_buffer] =
                        TapIn_prepare(node, @, sr, max_num_samples)]]
    ELSE IF node.kind = "SineGenerator"
    THEN [node |-> SineGenerator_prepare(node, sr), rings |-> rs]
    ELSE IF node.kind = "SawGenerator"
    THEN [node |-> SawGenerator_prepare(node, sr), rings |-> rs]
    ELSE IF node.kind = "FeedbackSineSubgraph"
    THEN [node |-> FeedbackSineSubgraph_prepare(node, sr), rings |-> rs]
    ELSE [node |-> Node_prepare(node, sr, max_num_samples), rings |-> rs]

\* the outcome r of FeedbackSineSubgraph::process as seen by the graph: the
\* composite owns its ring, and each of its steps locks that ring three times
\* (tap_out twice, tap_in once)
FeedbackSineSubgraph_result(node, rs, r) ==
    [ok |-> r.ok, node |-> r.node, rings |-> rs, buffer |-> r.buffer,
     locks |-> 3 * (r.node.sine_generator.steps - node.sine_generator.steps)]

\* node.process(buffer): returns [ok, node, rings, buffer, locks]
AudioGraphNode_process(node, rs, view, debug) ==
    IF node.kind = "TapIn"
    THEN LET r == TapIn_process(rs[node.shared_buffer], view)
         IN  [ok |-> r.ok, node |-> node,
              rings |-> [rs EXCEPT ![node.shared_buffer] = r.shared],
              buffer |-> r.buffer, locks |-> 1]
    ELSE IF node.kind = "TapOut"
    THEN LET r == TapOut_process(node, rs[node.shared_buffer], view, debug)
         IN  [ok |-> r.ok, node |-> node, rings |-> rs,
              buffer |-> r.buffer, locks |-> 2]
    ELSE IF node.kind = "ImpulseGenerator"
    THEN LET r == ImpulseGenerator_process(node, view)
         IN  [ok |-> r.ok, node |-> r.node, rings |-> rs,
              buffer |-> r.buffer, locks |-> 0]
    ELSE IF node.kind = "SineGenerator"
    THEN LET r == SineGenerator_process(node, view)
         IN  [ok |-> r.ok, node |-> r.node, rings |-> rs,
              buffer |-> r.buffer, locks |-> 0]
    ELSE IF node.kind = "SawGenerator"
    THEN LET r == SawGenerator_process(node, view)
         IN  [ok |-> r.ok, node |-> r.node, rings |-> rs,
              buffer |-> r.buffer, locks |-> 0]
    ELSE IF node.kind = "FeedbackSineSubgraph"
    THEN FeedbackSineSubgraph_result(
             node, rs, FeedbackSineSubgraph_process(node, view, debug))
    ELSE LET r == Node_process(node, view)
         IN  [ok |-> TRUE, node |-> r.node, rings |-> rs,
              buffer |-> r.buffer, locks |-> 0]

\* node.reset(): returns [node, rings]
AudioGraphNode_reset(node, rs) ==
    IF node.kind = "TapIn"
    THEN [node  |-> node,
          rings |-> [rs EXCEPT ![node.shared_buffer] = TapIn_reset(@)]]
    ELSE IF node.kind = "ImpulseGenerator"
    THEN [node |-> ImpulseGenerator_reset(node), rings |-> rs]
    ELSE IF node.kind = "SineGenerator"
    THEN [node |-> SineGenerator_reset(node), rings |-> rs]
    ELSE IF node.kind = "SawGenerator"
    THEN [node |-> SawGenerator_reset(node), rings |-> rs]
    ELSE IF node.kind = "FeedbackSineSubgraph"
    THEN [node |-> FeedbackSineSubgraph_reset(node), rings |-> rs]
    ELSE [node |-> node, rings |-> rs]

----------------------------------------------------------------------------
(* AudioGraph (audio_engine_core/src/audio_graph.rs) *)

\* AudioGraph::new: the default sample rate
DefaultSampleRate == 44100

\* a prepare that allocates an output buffer for every id the graph can hold,
\* whether the node is present or not
AudioGraph_prepare_outputs_all_ids(g, max_size) ==
    [id \in NodeIds |-> Zeros(num_channels * max_size)]

\* AudioGraph::prepare: node_outputs and the scratch buffer are rebuilt for the
\* ids of the graph, then every node is prepared
AudioGraph_prepare_outputs(g, max_size) ==
    [id \in DOMAIN g.adjacency_list |-> Zeros(num_channels * max_size)]

\* AudioGraph::add_node, the allocation of the output buffer: the buffer is
\* allocated only when node_outputs already holds some buffer
AudioGraph_add_node_outputs(outs, node_id, max_size) ==
    IF outs # EmptyMap
    THEN MapInsert(outs, node_id, Zeros(num_channels * max_size))
    ELSE outs

\* a prepare that sizes the buffers and leaves the nodes as they are
AudioGraph_prepare_nodes_skip(ns, rs, ids, sr, max_size) ==
    [nodes |-> ns, rings |-> rs]

RECURSIVE AudioGraph_prepare_nodes(_, _, _, _, _)
\* AudioGraph::prepare, the loop over nodes.values_mut(): every node of ids is
\* prepared.  Returns [nodes, rings].  (A node touches its own fields and a
\* ring is written by its one TapIn only, so the order of the loop does not
\* show in the result.)
AudioGraph_prepare_nodes(ns, rs, ids, sr, max_size) ==
    IF ids = {} THEN [nodes |-> ns, rings |-> rs]
    ELSE LET id == CHOOSE x \in ids : TRUE
             r  == AudioGraphNode_prepare(ns[id], rs, sr, max_size)
         IN  AudioGraph_prepare_nodes([ns EXCEPT ![id] = r.node], r.rings,
                                      ids \ {id}, sr, max_size)

RECURSIVE AudioGraph_reset_nodes(_, _, _)
\* AudioGraph::reset, the loop over nodes.values_mut().  Returns [nodes, rings].
AudioGraph_reset_nodes(ns, rs, ids) ==
    IF ids = {} THEN [nodes |-> ns, rings |-> rs]
    ELSE LET id == CHOOSE x \in ids : TRUE
             r  == AudioGraphNode_reset(ns[id], rs)
         IN  AudioGraph_reset_nodes([ns EXCEPT ![id] = r.node], r.rings,
                                    ids \ {id})

\* AudioGraph::reset
AudioGraph_reset(ns, rs) == AudioGraph_reset_nodes(ns, rs, DOMAIN ns)

\* an allocator that hands out the same id again
AudioGraph_next_node_id_reuse(id) == id

\* AudioGraph::add_node: self.next_node_id += 1
AudioGraph_next_node_id(id) == id + 1

RECURSIVE sum_inputs(_, _, _, _, _, _, _)
\* AudioGraph::process, the loop over input_node_ids: adds the output buffer
\* of every predecessor into the scratch view.  Returns [ok, buffer]; ok =
\* FALSE is a failed debug assertion.
sum_inputs(input_node_ids, i, outs, tmp, channels, frames, debug) ==
    IF i > Len(input_node_ids) THEN [ok |-> TRUE, buffer |-> tmp]
    ELSE IF input_node_ids[i] \in DOMAIN outs
    THEN LET input_buffer ==
                 AudioBuffer_new(channels, frames, outs[input_node_ids[i]], debug)
         IN  IF ~input_buffer.ok THEN [ok |-> FALSE, buffer |-> tmp]
             ELSE sum_inputs(input_node_ids, i + 1, outs,
                             add_buffer(input_buffer.buffer, tmp),
                             channels, frames, debug)
    ELSE IF debug THEN [ok |-> FALSE, buffer |-> tmp]
    ELSE sum_inputs(input_node_ids, i + 1, outs, tmp, channels, frames, debug)

\* the order in which AudioGraph::process walks the nodes, taken in the
\* cached topological order (sinks first)
processing_order_unreversed(g) == get_topological_order(g)

\* the order in which AudioGraph::process walks the nodes
processing_order(g) == get_reverse_topological_order(g)

\* AudioGraph::process, the debug assertions on entry
process_preconditions(c, ns, max_size) ==
    /\ c.channels > 0
    /\ c.channels = num_channels
    /\ c.frames <= max_size
    /\ c.input_node_id \in DOMAIN ns
    /\ c.output_node_id \in DOMAIN ns

\* AudioGraph::process, one iteration of the loop over processing_order for
\* node_id.  st = [fault, tmp, outs, nodes, rings, handed, produced, invoked, locks];
\* buf is the caller's buffer.
process_node(g, node_id, st, c, buf, debug) ==
    LET view == AudioBuffer_new(c.channels, c.frames, st.tmp, debug)
    IN
    IF ~view.ok THEN [st EXCEPT !.fault = TRUE]
    ELSE
    LET cleared == clear_buffer(view.buffer)
        summed  == sum_inputs(get_input_node_ids(g, node_id), 1, st.outs,
                              cleared, c.channels, c.frames, debug)
    IN
    IF ~summed.ok THEN [st EXCEPT !.fault = TRUE, !.tmp = summed.buffer]
    ELSE
    LET copied == IF node_id = c.input_node_id
                  THEN copy_buffer(buf, summed.buffer)
                  ELSE [ok |-> TRUE, buffer |-> summed.buffer]
    IN
    IF ~copied.ok THEN [st EXCEPT !.fault = TRUE, !.tmp = copied.buffer]
    ELSE IF node_id \notin DOMAIN st.outs
    THEN \* no output buffer: debug_assert!(false), else continue
         [st EXCEPT !.fault = debug, !.tmp = copied.buffer]
    ELSE IF node_id \notin DOMAIN st.nodes
    THEN \* no node object: debug_assert!(false), else the scratch is stored
         IF debug THEN [st EXCEPT !.fault = TRUE, !.tmp = copied.buffer]
         ELSE LET out == AudioBuffer_new(c.channels, c.frames, st.outs[node_id], debug)
                  res == copy_buffer(copied.buffer, out.buffer)
              IN  [st EXCEPT !.fault = ~res.ok, !.tmp = copied.buffer,
                             !.outs[node_id] = res.buffer]
    ELSE
    LET run == AudioGraphNode_process(st.nodes[node_id], st.rings,
                                      [view EXCEPT !.buffer = copied.buffer],
                                      debug)
    IN
    IF ~run.ok
    THEN [st EXCEPT !.fault = TRUE, !.tmp = run.buffer,
                    !.nodes[node_id] = run.node, !.rings = run.rings,
                    !.locks = @ + run.locks,
                    !.invoked = Append(@, node_id),
                    !.handed = MapInsert(@, node_id, copied.buffer)]
    ELSE
    LET out == AudioBuffer_new(c.channels, c.frames, st.outs[node_id], debug)
        res == copy_buffer(run.buffer, out.buffer)
    IN  [st EXCEPT !.fault    = (~out.ok) \/ (~res.ok),
                   !.tmp      = run.buffer,
                   !.outs     = IF out.ok THEN [@ EXCEPT ![node_id] = res.buffer]
                                ELSE @,
                   !.nodes[node_id] = run.node,
                   !.rings    = run.rings,
                   !.locks    = @ + run.locks,
                   !.invoked  = Append(@, node_id),
                   !.handed   = MapInsert(@, node_id, copied.buffer),
                   !.produced = MapInsert(@, node_id, run.buffer)]

\* AudioGraph::process, after the loop: the output node's buffer is copied
\* into the caller's buffer.  Returns [fault, buffer].
process_output(outs, c, buf, debug) ==
    IF c.output_node_id \notin DOMAIN outs
    THEN [fault |-> debug, buffer |-> buf]
    ELSE LET out == AudioBuffer_new(c.channels, c.frames,
                                    outs[c.output_node_id], debug)
             res == copy_buffer(out.buffer, buf)
         IN  [fault |-> (~out.ok) \/ (~res.ok),
              buffer |-> IF out.ok THEN res.buffer ELSE buf]

RECURSIVE process_loop_clear_inputs(_, _, _, _, _, _, _)
\* a walk in which every step consumes what it read: it zeroes the output
\* buffers of the node's predecessors after the node was processed
process_loop_clear_inputs(g, order, i, st, c, buf, debug) ==
    IF st.fault \/ i > Len(order) THEN st
    ELSE LET after == process_node(g, order[i], st, c, buf, debug)
             read  == { p \in DOMAIN after.outs :
                          Contains(get_input_node_ids(g, order[i]), p) }
         IN  process_loop_clear_inputs(g, order, i + 1,
                 [after EXCEPT !.outs = [m \in DOMAIN @ |->
                     IF m \in read THEN Zeros(Len(@[m])) ELSE @[m]]],
                 c, buf, debug)

RECURSIVE process_loop(_, _, _, _, _, _, _)
\* AudioGraph::process, the loop over processing_order; a panic ends the walk
process_loop(g, order, i, st, c, buf, debug) ==
    IF st.fault \/ i > Len(order) THEN st
    ELSE process_loop(g, order, i + 1,
                      process_node(g, order[i], st, c, buf, debug),
                      c, buf, debug)

\* AudioGraph::process.  st0 holds the graph's buffers and nodes before the
\* call; returns [fault, buffer, st]: whether the call panicked, the caller's
\* buffer and the graph's buffers and nodes afterwards.
process(g, st0, c, max_size, debug) ==
    IF debug /\ ~process_preconditions(c, st0.nodes, max_size)
    THEN [fault |-> TRUE, buffer |-> c.host, st |-> st0]
    ELSE LET buf == clear_buffer(c.host)
             st  == process_loop(g, processing_order(g), 1, st0, c, buf, debug)
         IN  IF st.fault
             THEN [fault |-> TRUE, buffer |-> buf, st |-> st]
             ELSE LET r == process_output(st.outs, c, buf, debug)
                  IN  [fault |-> r.fault, buffer |-> r.buffer, st |-> st]

----------------------------------------------------------------------------
(* Inputs of the operations *)

\* largest max_buffer_size passed to prepare and largest block of a process call
MaxFrames == 1

\* sample rates passed to prepare
SampleRates == { 48000 }

\* contents of the caller's buffer of n samples: a ramp and a constant
HostBuffers(n) == { [i \in 1 .. n |-> i], [i \in 1 .. n |-> 7] }

\* no process call made
NoCall == [ channels |-> 0, frames |-> 0, input_node_id |-> 0,
            output_node_id |-> 0, host |-> << >> ]

Op(name, a, b, result) == [op |-> name, a |-> a, b |-> b, result |-> result]

\* no operation has returned a result that the caller still holds
NoOp == Op("none", 0, 0, "Ok")

BoolStr(b) == IF b THEN "true" ELSE "false"

\* the key set of the graph's adjacency_list
GraphKeys == DOMAIN graph.adjacency_list

----------------------------------------------------------------------------
(* State after construction *)

\* number of TapIn objects, each with its own shared ring, that are constructed
MaxRings == 1

\* the handles of the shared rings
RingIds == 0 .. (MaxRings - 1)

\* no block has been fed to tap_in since its construction, prepare or reset;
\* next is the value of the next sample the driver feeds
NoTapHistory(next) ==
    [prepared |-> FALSE, max_num_samples |-> 0, samples |-> << >>,
     sizes |-> {}, next |-> next]

\* no process call since ImpulseGenerator::new or reset
NoImpulseHistory == [calls |-> 0, nonempty |-> 0]

\* AudioEngineService::new: the service owns a new graph and no stream.
\* audio_graph and stream are the Options of the source; at is the place of
\* the control thread (idle, or in start_playback after the take); callback is
\* the closure that holds the graph once start_playback has built it (live:
\* registered with the started stream; dropped: the stream failed to open or
\* to start); control is panicked once an unwrap or expect has failed; calls
\* counts the callbacks that have returned.
AudioEngineService_new ==
    [ audio_graph |-> "Some", stream |-> "None", at |-> "idle",
      callback |-> "none", node_id_in |-> 0, node_id_out |-> 0,
      control |-> "running", calls |-> 0 ]

\* the nodes constructed with their defaults (TapIn::new: 1000 ms, TapOut::new:
\* 500 ms) and not yet used
InitUnits ==
    /\ rings = [r \in RingIds |-> SharedRingBuffer_default]
    /\ tap_in = TapIn_new(0, 1000)
    /\ tap_out = TapOut_new(0, 500)
    /\ tap_history = NoTapHistory(1)
    /\ impulse = ImpulseGenerator_new
    /\ impulse_history = NoImpulseHistory
    /\ locks = 0
    /\ service = AudioEngineService_new

\* AudioGraph::new, in either build profile
InitAudioGraph ==
    /\ debug_assertions \in BOOLEAN
    /\ graph = DirectedGraph_new
    /\ nodes = EmptyMap
    /\ next_node_id = 0
    /\ sample_rate = DefaultSampleRate
    /\ max_buffer_size = 0
    /\ node_outputs = EmptyMap
    /\ tmp_input_buffer = << >>
    /\ pc = "idle"
    /\ call = NoCall
    /\ buffer = << >>
    /\ handed = EmptyMap
    /\ produced = EmptyMap
    /\ invoked = << >>
    /\ prepared = FALSE
    /\ issued = {}
    /\ updated = FALSE
    /\ last = NoOp

Init ==
    /\ InitAudioGraph
    /\ InitUnits

\* The caller takes the result of the operation that has returned; the graph
\* is ready for the next call.  (The graph is reached through &mut self, so
\* calls never overlap.)
Return ==
    /\ pc = "done"
    /\ pc' = "idle"
    /\ last' = NoOp
    /\ call' = NoCall
    /\ buffer' = << >>
    /\ handed' = EmptyMap
    /\ produced' = EmptyMap
    /\ invoked' = << >>
    /\ locks' = 0
    /\ updated' = FALSE
    /\ UNCHANGED << debug_assertions, graph, audioVars, rings, tap_in, tap_out,
                    tap_history, impulse, impulse_history, service >>

----------------------------------------------------------------------------
(* The DirectedGraph used on its own: every operation with any identifier *)

DG_AddNode(id) ==
    /\ pc = "idle"
    /\ \E r \in { DirectedGraph_add_node(graph, id) } :
        /\ graph' \in AfterUpdate(r)
        /\ updated' = r.update
        /\ last' = Op("add_node", id, id, BoolStr(r.result))
    /\ pc' = "done"
    /\ UNCHANGED << debug_assertions, audioVars, call, buffer, handed, produced, invoked,
                    rings, unitVars >>

DG_AddEdge(u, v) ==
    /\ pc = "idle"
    /\ \E r \in { DirectedGraph_add_edge(graph, u, v) } :
        /\ graph' \in AfterUpdate(r)
        /\ updated' = r.update
        /\ last' = Op("add_edge", u, v, r.result)
    /\ pc' = "done"
    /\ UNCHANGED << debug_assertions, audioVars, call, buffer, handed, produced, invoked,
                    rings, unitVars >>

DG_RemoveNode(id) ==
    /\ pc = "idle"
    /\ \E r \in { DirectedGraph_remove_node(graph, id) } :
        /\ graph' \in AfterUpdate(r)
        /\ updated' = r.update
        /\ last' = Op("remove_node", id, id, BoolStr(r.result))
    /\ pc' = "done"
    /\ UNCHANGED << debug_assertions, audioVars, call, buffer, handed, produced, invoked,
                    rings, unitVars >>

DG_RemoveEdge(u, v) ==
    /\ pc = "idle"
    /\ \E r \in { DirectedGraph_remove_edge(graph, u, v) } :
        /\ graph' \in AfterUpdate(r)
        /\ updated' = r.update
        /\ last' = Op("remove_edge", u, v, BoolStr(r.result))
    /\ pc' = "done"
    /\ UNCHANGED << debug_assertions, audioVars, call, buffer, handed, produced, invoked,
                    rings, unitVars >>

NextDG ==
    \/ \E id \in NodeIds : DG_AddNode(id)
    \/ \E u, v \in NodeIds : DG_AddEdge(u, v)
    \/ \E id \in NodeIds : DG_RemoveNode(id)
    \/ \E u, v \in NodeIds : DG_RemoveEdge(u, v)
    \/ Return

SpecDG == Init /\ [][NextDG]_vars

----------------------------------------------------------------------------
(* The tap pair driven directly, as tap_test.rs drives it: prepare, then in   *)
(* every block TapOut::process followed by TapIn::process                    *)

\* largest block, in frames, handed to the taps and largest max_num_samples
MaxTapFrames == 2

\* total number of samples fed to tap_in over a run
MaxTapSamples == 16

\* sample rate of the tap tests: one frame per millisecond
TapSampleRates == { 1000 }

\* values passed to TapIn::set_max_delay_time_ms
TapMaxDelays == { 0, 1, 2, 3 }

\* values passed to TapOut::set_delay_time_ms
TapDelays == { 0, 1, 2, 3 }

\* what the output area holds before TapOut::process writes to it
OutputArea(n) == [i \in 1 .. n |-> 9]

InitTap ==
    /\ InitAudioGraph
    /\ rings = [r \in RingIds |-> SharedRingBuffer_default]
    /\ tap_in \in { TapIn_new(0, ms) : ms \in TapMaxDelays }
    /\ tap_out \in { TapOut_new(0, ms) : ms \in TapDelays }
    /\ tap_history = NoTapHistory(1)
    /\ impulse = ImpulseGenerator_new
    /\ impulse_history = NoImpulseHistory
    /\ locks = 0
    /\ service = AudioEngineService_new

\* tap_in.prepare(sr, max_num_samples); tap_out.prepare(sr, max_num_samples)
Tap_Prepare(sr, max_num_samples) ==
    /\ pc = "idle"
    /\ rings' = [rings EXCEPT ![tap_in.shared_buffer] =
                     TapIn_prepare(tap_in, @, sr, max_num_samples)]
    /\ tap_history' = [NoTapHistory(tap_history.next) EXCEPT
                           !.prepared = TRUE,
                           !.max_num_samples = max_num_samples]
    /\ last' = Op("tap_prepare", sr, max_num_samples, "Ok")
    /\ UNCHANGED << debug_assertions, graph, audioVars, pc, call, buffer,
                    handed, produced, invoked, tap_in, tap_out, impulse, impulse_history, locks,
                    updated, service >>

\* tap_out.process on an output area of frames frames
Tap_OutProcess(frames) ==
    /\ pc = "idle"
    /\ tap_history.prepared
    /\ tap_history.next + 2 * frames - 1 <= MaxTapSamples
    /\ \E r \in { TapOut_process(tap_out, rings[tap_out.shared_buffer],
                      AudioBuffer_new(2, frames, OutputArea(2 * frames),
                                      debug_assertions),
                      debug_assertions) } :
           /\ buffer' = r.buffer
           /\ pc' = IF r.ok THEN "tap_out" ELSE "fault"
    /\ call' = [NoCall EXCEPT !.channels = 2, !.frames = frames]
    /\ tap_history' = [tap_history EXCEPT !.sizes = @ \cup {frames}]
    /\ last' = Op("tap_out_process", frames, frames, "Ok")
    /\ UNCHANGED << debug_assertions, graph, audioVars, handed, produced, invoked,
                    rings, tap_in, tap_out, impulse, impulse_history, locks,
                    updated, service >>

\* tap_in.process on the input of the same block: the next samples of a ramp
Tap_InProcess ==
    /\ pc = "tap_out"
    /\ LET n     == 2 * call.frames
           input == [k \in 1 .. n |-> tap_history.next + k - 1]
       IN  \E r \in { TapIn_process(rings[tap_in.shared_buffer],
                          AudioBuffer_new(2, call.frames, input,
                                          debug_assertions)) } :
               /\ rings' = [rings EXCEPT ![tap_in.shared_buffer] = r.shared]
               /\ pc' = IF r.ok THEN "idle" ELSE "fault"
               /\ tap_history' = [tap_history EXCEPT
                                      !.samples = @ \o input,
                                      !.next = @ + n]
    /\ call' = NoCall
    /\ buffer' = << >>
    /\ last' = Op("tap_in_process", call.frames, call.frames, "Ok")
    /\ UNCHANGED << debug_assertions, graph, audioVars, handed, produced, invoked,
                    tap_in, tap_out, impulse, impulse_history, locks, updated,
                    service >>

\* tap_in.reset(); tap_out.reset()
Tap_Reset ==
    /\ pc = "idle"
    /\ tap_history.prepared
    /\ tap_history.samples # << >>
    /\ rings' = [rings EXCEPT ![tap_in.shared_buffer] = TapIn_reset(@)]
    /\ tap_history' = [tap_history EXCEPT !.samples = << >>, !.sizes = {}]
    /\ last' = Op("tap_reset", 0, 0, "Ok")
    /\ UNCHANGED << debug_assertions, graph, audioVars, pc, call, buffer,
                    handed, produced, invoked, tap_in, tap_out, impulse, impulse_history, locks,
                    updated, service >>

NextTap ==
    \/ \E sr \in TapSampleRates, max_num_samples \in 0 .. MaxTapFrames :
           Tap_Prepare(sr, max_num_samples)
    \/ \E frames \in 0 .. MaxTapFrames : Tap_OutProcess(frames)
    \/ Tap_InProcess
    \/ Tap_Reset

SpecTap == InitTap /\ [][NextTap]_vars

----------------------------------------------------------------------------
(* An ImpulseGenerator driven directly: process calls on blocks of any shape *)
(* and resets                                                               *)

\* largest block, in frames, handed to the impulse generator
MaxImpulseFrames == 2

\* process calls followed after ImpulseGenerator::new or a reset
MaxImpulseCalls == 4

\* channel counts of the blocks handed to the impulse generator
ImpulseChannels == { 1, 2 }

\* impulse.process on a block of the given shape holding host
Impulse_Process(channels, frames, host) ==
    /\ pc \in {"idle", "done"}
    /\ impulse_history.calls < MaxImpulseCalls
    /\ \E r \in { ImpulseGenerator_process(impulse,
                      AudioBuffer_new(channels, frames, host, debug_assertions)) } :
           /\ impulse' = r.node
           /\ buffer' = r.buffer
           /\ pc' = IF r.ok THEN "done" ELSE "fault"
    /\ call' = [NoCall EXCEPT !.channels = channels, !.frames = frames,
                              !.host = host]
    /\ impulse_history' =
           [calls    |-> impulse_history.calls + 1,
            nonempty |-> impulse_history.nonempty + (IF frames > 0 THEN 1 ELSE 0)]
    /\ last' = Op("impulse_process", channels, frames, "Ok")
    /\ UNCHANGED << debug_assertions, graph, audioVars, handed, produced, invoked,
                    rings, tap_in, tap_out, tap_history, locks, updated,
                    service >>

\* impulse.reset()
Impulse_Reset ==
    /\ pc \in {"idle", "done"}
    /\ impulse' = ImpulseGenerator_reset(impulse)
    /\ impulse_history' = NoImpulseHistory
    /\ pc' = "idle"
    /\ call' = NoCall
    /\ buffer' = << >>
    /\ last' = Op("impulse_reset", 0, 0, "Ok")
    /\ UNCHANGED << debug_assertions, graph, audioVars, handed, produced, invoked,
                    rings, tap_in, tap_out, tap_history, locks, updated,
                    service >>

NextImpulse ==
    \/ \E channels \in ImpulseChannels, frames \in 0 .. MaxImpulseFrames :
           \E host \in HostBuffers(channels * frames) :
               Impulse_Process(channels, frames, host)
    \/ Impulse_Reset

SpecImpulse == Init /\ [][NextImpulse]_vars

\* AudioGraph::prepare
Prepare(sr, max_size) ==
    /\ pc = "idle"
    /\ sample_rate' = sr
    /\ max_buffer_size' = max_size
    /\ node_outputs' = AudioGraph_prepare_outputs(graph, max_size)
    /\ tmp_input_buffer' = Zeros(num_channels * max_size)
    /\ \E r \in { AudioGraph_prepare_nodes(nodes, rings, DOMAIN nodes,
                                            sr, max_size) } :
           /\ nodes' = r.nodes
           /\ rings' = r.rings
    /\ prepared' = TRUE
    /\ last' = Op("prepare", sr, max_size, "Ok")
    /\ pc' = "done"
    /\ UNCHANGED << debug_assertions, graph, next_node_id, issued, call, buffer,
                    handed, produced, invoked, unitVars, updated >>

\* kinds of the engine's concrete nodes
ConcreteKinds ==
    { "ImpulseGenerator", "SineGenerator", "SawGenerator", "TapIn", "TapOut",
      "FeedbackSineSubgraph" }

\* the node object is still the caller's to hand over: add_node takes the Box
\* by value, so an object enters a graph once.  The caller constructs one
\* object of each concrete kind (and any number of marker and test nodes).
NodeAvailable(node) ==
    node.kind \in ConcreteKinds =>
        \A id \in DOMAIN nodes : nodes[id].kind # node.kind

\* AudioGraph::add_node
AddNode(node) ==
    /\ pc = "idle"
    /\ next_node_id < MaxNodes
    /\ NodeAvailable(node)
    /\ LET node_id == next_node_id
       IN  /\ next_node_id' = AudioGraph_next_node_id(next_node_id)
           /\ graph' \in AfterUpdate(DirectedGraph_add_node(graph, node_id))
           /\ updated' = (DirectedGraph_add_node(graph, node_id)).update
           /\ \E r \in { AudioGraphNode_prepare(node, rings, sample_rate,
                                                 max_buffer_size) } :
                  /\ nodes' = MapInsert(nodes, node_id, r.node)
                  /\ rings' = r.rings
           /\ node_outputs' =
                  AudioGraph_add_node_outputs(node_outputs, node_id, max_buffer_size)
           /\ issued' = issued \cup {node_id}
           /\ last' = Op("add_node", node_id, node_id, "Ok")
    /\ pc' = "done"
    /\ UNCHANGED << debug_assertions, sample_rate, max_buffer_size,
                    tmp_input_buffer, prepared, call, buffer, handed, produced, invoked,
                    unitVars >>

\* AudioGraph::add_edge
AddEdge(u, v) ==
    /\ pc = "idle"
    /\ \E r \in { DirectedGraph_add_edge(graph, u, v) } :
        /\ graph' \in AfterUpdate(r)
        /\ updated' = r.update
        /\ last' = Op("add_edge", u, v, r.result)
    /\ pc' = "done"
    /\ UNCHANGED << debug_assertions, audioVars, call, buffer, handed, produced, invoked,
                    rings, unitVars >>

\* AudioGraph::remove_node
RemoveNode(id) ==
    /\ pc = "idle"
    /\ \E r \in { DirectedGraph_remove_node(graph, id) } :
        /\ graph' \in AfterUpdate(r)
        /\ updated' = r.update
        /\ last' = Op("remove_node", id, id, BoolStr(r.result))
        /\ IF r.result
           THEN /\ node_outputs' = MapRemove(node_outputs, id)
                /\ nodes' = MapRemove(nodes, id)
           ELSE UNCHANGED << node_outputs, nodes >>
    /\ pc' = "done"
    /\ UNCHANGED << debug_assertions, next_node_id, sample_rate, max_buffer_size,
                    tmp_input_buffer, prepared, issued, call, buffer, handed,
                    produced, invoked, rings, unitVars >>

\* AudioGraph::remove_edge
RemoveEdge(u, v) ==
    /\ pc = "idle"
    /\ \E r \in { DirectedGraph_remove_edge(graph, u, v) } :
        /\ graph' \in AfterUpdate(r)
        /\ updated' = r.update
        /\ last' = Op("remove_edge", u, v, BoolStr(r.result))
    /\ pc' = "done"
    /\ UNCHANGED << debug_assertions, audioVars, call, buffer, handed, produced, invoked,
                    rings, unitVars >>

\* AudioGraph::process: one call, from the entry assertions to the return or
\* to the panic that ends it
Process(channels, frames, host, input_id, output_id) ==
    /\ pc = "idle"
    /\ \E c \in { [ channels |-> channels, frames |-> frames,
                    input_node_id |-> input_id, output_node_id |-> output_id,
                    host |-> host ] } :
       \E r \in { process(graph,
                          [ fault |-> FALSE, tmp |-> tmp_input_buffer,
                            outs |-> node_outputs, nodes |-> nodes,
                            rings |-> rings, locks |-> 0,
                            handed |-> EmptyMap, produced |-> EmptyMap,
                            invoked |-> << >> ],
                          c, max_buffer_size, debug_assertions) } :
           /\ call' = c
           /\ pc' = IF r.fault THEN "fault" ELSE "done"
           /\ buffer' = r.buffer
           /\ tmp_input_buffer' = r.st.tmp
           /\ node_outputs' = r.st.outs
           /\ nodes' = r.st.nodes
           /\ rings' = r.st.rings
           /\ locks' = r.st.locks
           /\ handed' = r.st.handed
           /\ produced' = r.st.produced
           /\ invoked' = r.st.invoked
    /\ last' = Op("process", input_id, output_id, "Ok")
    /\ UNCHANGED << debug_assertions, graph, next_node_id, sample_rate,
                    max_buffer_size, prepared, issued, tap_in, tap_out,
                    tap_history, impulse, impulse_history, updated, service >>

\* AudioGraph::reset
Reset ==
    /\ pc = "idle"
    /\ \E r \in { AudioGraph_reset(nodes, rings) } :
           /\ nodes' = r.nodes
           /\ rings' = r.rings
    /\ last' = Op("reset", 0, 0, "Ok")
    /\ pc' = "done"
    /\ UNCHANGED << debug_assertions, graph, next_node_id, sample_rate,
                    max_buffer_size, node_outputs, tmp_input_buffer, prepared,
                    issued, call, buffer, handed, produced, invoked, unitVars, updated >>

\* channel counts of the buffers passed to process: the one the graph
\* supports and one it does not
ChannelCounts == { 1, num_channels }

Next ==
    \/ \E sr \in SampleRates, max_size \in 0 .. MaxFrames : Prepare(sr, max_size)
    \/ \E node \in NodeChoices : AddNode(node)
    \/ \E u, v \in NodeIds : AddEdge(u, v)
    \/ \E id \in NodeIds : RemoveNode(id)
    \/ \E u, v \in NodeIds : RemoveEdge(u, v)
    \/ \E channels \in ChannelCounts, frames \in 0 .. MaxFrames,
          input_id, output_id \in NodeIds :
           \E host \in HostBuffers(channels * frames) :
               Process(channels, frames, host, input_id, output_id)
    \/ Return

Spec == Init /\ [][Next]_vars

----------------------------------------------------------------------------
(* The AudioGraph built from the engine's concrete nodes *)

\* sample rate of the sine generator's test: a quarter turn per frame at 1 Hz
EngineSampleRates == { 4 }

\* the nodes add_node is called with: an impulse generator, a sine generator
\* set to 1 Hz, a TapIn whose longest delay is 250 ms and TapOuts on its ring
\* with a delay of 250 ms (one frame at 4 Hz)
EngineNodes ==
    { ImpulseGenerator_new, SineGenerator_new(1) }
        \cup { TapIn_new(r, 250) : r \in RingIds }
        \cup { TapOut_new(r, 250) : r \in RingIds }

\* the caller's buffer of n samples: a ramp
EngineHosts(n) == { [i \in 1 .. n |-> i] }

NextEngine ==
    \/ \E sr \in EngineSampleRates, max_size \in 0 .. MaxFrames :
           Prepare(sr, max_size)
    \/ \E node \in EngineNodes : AddNode(node)
    \/ \E u, v \in NodeIds : AddEdge(u, v)
    \/ \E frames \in 1 .. MaxFrames, output_id \in NodeIds :
           \E host \in EngineHosts(num_channels * frames) :
               Process(num_channels, frames, host, 0, output_id)
    \/ Reset
    \/ Return

SpecEngine == Init /\ [][NextEngine]_vars

----------------------------------------------------------------------------
(* The AudioGraph with a FeedbackSineSubgraph, alone or fed by a constant    *)
(* node, processing blocks of one or more frames                            *)

\* longest block
MaxFeedbackFrames == 2

\* internal steps a FeedbackSineSubgraph takes before it is reset
MaxFeedbackSteps == 4

\* the nodes add_node is called with
FeedbackNodes == { FeedbackSineSubgraph_new } \cup { TestNode(v) : v \in TestValues }

\* the subgraph has steps left for a block of the given length
FeedbackStepsLeft(frames) ==
    \A id \in DOMAIN nodes :
        nodes[id].kind = "FeedbackSineSubgraph"
            => nodes[id].sine_generator.steps + frames <= MaxFeedbackSteps

NextFeedback ==
    \/ \E sr \in EngineSampleRates, max_size \in 1 .. MaxFeedbackFrames :
           Prepare(sr, max_size)
    \/ \E node \in FeedbackNodes : next_node_id < 2 /\ AddNode(node)
    \/ \E u, v \in NodeIds : AddEdge(u, v)
    \/ \E frames \in 1 .. MaxFeedbackFrames, output_id \in DOMAIN nodes :
           \E host \in EngineHosts(num_channels * frames) :
               /\ FeedbackStepsLeft(frames)
               /\ Process(num_channels, frames, host, 0, output_id)
    \/ Reset
    \/ Return

SpecFeedback == Init /\ [][NextFeedback]_vars

----------------------------------------------------------------------------
(* The AudioGraph with the oscillators, set to frequencies below and above   *)
(* the sample rate                                                          *)

\* longest block
MaxOscFrames == 2

\* largest distance of a phase from 0, in units of 1 / sample_rate, before
\* the graph is reset
MaxOscPhase == 12

\* values passed to set_frequency, in Hz: the setters accept every f32
OscFrequencies == { 0 - 1, 1, 5, 9 }

\* the nodes add_node is called with
OscNodes ==
    { SineGenerator_new(f) : f \in OscFrequencies }
        \cup { SawGenerator_new(f) : f \in OscFrequencies }

\* kinds of the oscillators
OscKinds == { "SineGenerator", "SawGenerator" }

\* no oscillator leaves the phases of the model in a block of the given length
OscPhaseLeft(frames) ==
    \A id \in DOMAIN nodes :
        nodes[id].kind \in OscKinds
            => /\ nodes[id].phase + frames * nodes[id].frequency <= MaxOscPhase
               /\ nodes[id].phase + frames * nodes[id].frequency >= 0 - MaxOscPhase

NextOsc ==
    \/ \E sr \in EngineSampleRates, max_size \in 1 .. MaxOscFrames :
           Prepare(sr, max_size)
    \/ \E node \in OscNodes : next_node_id < 2 /\ AddNode(node)
    \/ \E u, v \in NodeIds : AddEdge(u, v)
    \/ \E frames \in 1 .. MaxOscFrames, output_id \in DOMAIN nodes :
           \E host \in EngineHosts(num_channels * frames) :
               /\ OscPhaseLeft(frames)
               /\ Process(num_channels, frames, host, 0, output_id)
    \/ Reset
    \/ Return

SpecOsc == Init /\ [][NextOsc]_vars

----------------------------------------------------------------------------
(* The AudioGraph with every node that locks a ring: a TapIn, a TapOut on    *)
(* its ring and a FeedbackSineSubgraph                                      *)

\* what a node's process does to the Mutex of a ring, in program order
MutexLock(ring) == [op |-> "lock", ring |-> ring]
MutexUnlock(ring) == [op |-> "unlock", ring |-> ring]

\* the handle of the ring a FeedbackSineSubgraph makes for its own taps: it
\* is shared with no node of the graph
FeedbackSineSubgraph_ring == MaxRings

\* TapIn::process: one guard, taken at the start and dropped at the end of
\* the function
TapIn_process_mutex(ring) == << MutexLock(ring), MutexUnlock(ring) >>

\* a TapOut::process whose first guard lives to the end of the function
TapOut_process_mutex_one_scope(ring) ==
    << MutexLock(ring), MutexLock(ring), MutexUnlock(ring), MutexUnlock(ring) >>

\* TapOut::process: the guard that reads sample_rate is dropped at the end of
\* its block, the guard of the copy at the end of the function
TapOut_process_mutex(ring) ==
    << MutexLock(ring), MutexUnlock(ring), MutexLock(ring), MutexUnlock(ring) >>

RECURSIVE FeedbackSineSubgraph_process_mutex(_, _)
\* FeedbackSineSubgraph::process: in every frame tap_out.process, then the
\* sine generator and the gain, then tap_in.process
FeedbackSineSubgraph_process_mutex(ring, frames) ==
    IF frames = 0 THEN << >>
    ELSE TapOut_process_mutex(ring) \o TapIn_process_mutex(ring)
             \o FeedbackSineSubgraph_process_mutex(ring, frames - 1)

\* node.process(buffer) on a block of the given number of frames: the
\* requests and releases it makes
AudioGraphNode_process_mutex(node, frames) ==
    IF node.kind = "TapIn" THEN TapIn_process_mutex(node.shared_buffer)
    ELSE IF node.kind = "TapOut" THEN TapOut_process_mutex(node.shared_buffer)
    ELSE IF node.kind = "FeedbackSineSubgraph"
    THEN FeedbackSineSubgraph_process_mutex(FeedbackSineSubgraph_ring, frames)
    ELSE << >>

\* the nodes add_node is called with
MutexNodes ==
    { FeedbackSineSubgraph_new }
        \cup { TapIn_new(r, 250) : r \in RingIds }
        \cup { TapOut_new(r, 250) : r \in RingIds }

NextMutex ==
    \/ \E sr \in EngineSampleRates : Prepare(sr, MaxFeedbackFrames)
    \/ \E node \in MutexNodes : AddNode(node)
    \/ \E u, v \in NodeIds : AddEdge(u, v)
    \/ \E frames \in 1 .. MaxFeedbackFrames, output_id \in DOMAIN nodes :
           \E host \in EngineHosts(num_channels * frames) :
               /\ FeedbackStepsLeft(frames)
               /\ Process(num_channels, frames, host, 0, output_id)
    \/ Reset
    \/ Return

SpecMutex == Init /\ [][NextMutex]_vars

----------------------------------------------------------------------------
(* The AudioEngineService: the control thread builds the graph through      *)
(* get_mut_audio_graph, start_playback moves it into the audio callback     *)

\* SAMPLE_RATE of the service, at the scale of the model's sample rates
ServiceSampleRate == 4

\* FRAMES of the service, the length of every block of the stream, at the
\* scale of the model's blocks
ServiceFrames == 2

\* callbacks the stream makes before it is stopped
MaxCallbacks == 2

\* the nodes the control thread adds
ServiceNodes == { ImpulseGenerator_new, SineGenerator_new(1) }

\* get_mut_audio_graph: as_mut().unwrap() succeeds while the service holds
\* the graph
get_mut_audio_graph(svc) == svc.audio_graph = "Some"

\* a start_playback that lends the graph to the callback and keeps it
AudioEngineService_lend_audio_graph(svc, input_id, output_id) ==
    [ svc EXCEPT !.at = "taken",
                 !.node_id_in = input_id, !.node_id_out = output_id ]

\* start_playback, self.audio_graph.take(): the graph leaves the service, to
\* be prepared and moved into the callback
AudioEngineService_take_audio_graph(svc, input_id, output_id) ==
    [ svc EXCEPT !.audio_graph = "None", !.at = "taken",
                 !.node_id_in = input_id, !.node_id_out = output_id ]

\* start_playback, from the construction of the callback to its end: the
\* closure owns the graph; when the stream opens and starts, the service
\* keeps the stream, otherwise the closure is dropped and the graph with it
AudioEngineService_open_stream(svc, ok) ==
    [ svc EXCEPT !.at = "idle",
                 !.callback = IF ok THEN "live" ELSE "dropped",
                 !.stream = IF ok THEN "Some" ELSE svc.stream ]

\* the variables no step of the service itself changes
serviceFrame == << debug_assertions, graph, audioVars, rings, tap_in, tap_out,
                   tap_history, impulse, impulse_history, locks, updated >>

\* the control thread calls get_mut_audio_graph and one operation of the
\* graph; the unwrap panics once the graph has left the service, whatever
\* the audio thread is doing
Service_GetMutAudioGraph ==
    /\ service.control = "running"
    /\ service.at = "idle"
    /\ IF get_mut_audio_graph(service)
       THEN \/ \E node \in ServiceNodes : next_node_id < 2 /\ AddNode(node)
            \/ \E u, v \in NodeIds : AddEdge(u, v)
            \/ \E id \in NodeIds : RemoveNode(id)
            \/ \E u, v \in NodeIds : RemoveEdge(u, v)
            \/ \E sr \in EngineSampleRates, max_size \in 1 .. ServiceFrames :
                   Prepare(sr, max_size)
       ELSE /\ service' = [service EXCEPT !.control = "panicked"]
            /\ UNCHANGED << serviceFrame, processVars, last >>

\* start_playback returns an error of PortAudio before it touches the graph
Service_StartPlaybackFails(input_id, output_id) ==
    /\ service.control = "running"
    /\ service.at = "idle"
    /\ pc = "idle"
    /\ pc' = "done"
    /\ last' = Op("start_playback", input_id, output_id, "Err")
    /\ UNCHANGED << serviceFrame, call, buffer, handed, produced, invoked,
                    service >>

\* start_playback up to the take of the graph; expect panics when the graph
\* was taken by an earlier start_playback
Service_StartPlaybackTakes(input_id, output_id) ==
    /\ service.control = "running"
    /\ service.at = "idle"
    /\ pc = "idle"
    /\ service' = IF service.audio_graph = "Some"
                  THEN AudioEngineService_take_audio_graph(service, input_id,
                                                           output_id)
                  ELSE [service EXCEPT !.control = "panicked"]
    /\ UNCHANGED << serviceFrame, processVars, last >>

\* start_playback: audio_graph.prepare(SAMPLE_RATE, FRAMES)
Service_StartPlaybackPrepares ==
    /\ service.control = "running"
    /\ service.at = "taken"
    /\ Prepare(ServiceSampleRate, ServiceFrames)

\* start_playback after the prepare: the callback is built around the graph,
\* the stream is opened and started, or one of the two fails
Service_StartPlaybackOpens ==
    /\ service.control = "running"
    /\ service.at = "taken"
    /\ pc = "done"
    /\ last.op = "prepare"
    /\ \E ok \in BOOLEAN :
           /\ service' = AudioEngineService_open_stream(service, ok)
           /\ last' = Op("start_playback", service.node_id_in,
                         service.node_id_out, IF ok THEN "Ok" ELSE "Err")
    /\ UNCHANGED << serviceFrame, processVars >>

\* the stream calls the callback: one block of FRAMES frames through
\* audio_graph.process with the node ids start_playback was given
Service_Callback ==
    /\ service.control = "running"
    /\ service.callback = "live"
    /\ service.calls < MaxCallbacks
    /\ \E host \in EngineHosts(num_channels * ServiceFrames) :
           Process(num_channels, ServiceFrames, host, service.node_id_in,
                   service.node_id_out)

\* the callback returns pa::Continue
Service_CallbackReturns ==
    /\ pc = "done"
    /\ last.op = "process"
    /\ pc' = "idle"
    /\ last' = NoOp
    /\ call' = NoCall
    /\ buffer' = << >>
    /\ handed' = EmptyMap
    /\ produced' = EmptyMap
    /\ invoked' = << >>
    /\ locks' = 0
    /\ updated' = FALSE
    /\ service' = [service EXCEPT !.calls = service.calls + 1]
    /\ UNCHANGED << debug_assertions, graph, audioVars, rings, tap_in, tap_out,
                    tap_history, impulse, impulse_history >>

\* an operation of the control thread returns
Service_Return ==
    /\ last.op # "process"
    /\ service.at = "idle"
    /\ Return

NextService ==
    \/ Service_GetMutAudioGraph
    \/ \E input_id, output_id \in NodeIds :
           Service_StartPlaybackFails(input_id, output_id)
    \/ \E input_id, output_id \in NodeIds :
           Service_StartPlaybackTakes(input_id, output_id)
    \/ Service_StartPlaybackPrepares
    \/ Service_StartPlaybackOpens
    \/ Service_Callback
    \/ Service_CallbackReturns
    \/ Service_Return

SpecService == Init /\ [][NextService]_vars

----------------------------------------------------------------------------
(* Vocabulary of the properties *)

\* the successors of u as a set
Succ(adj, u) == { adj[u][i] : i \in 1 .. Len(adj[u]) }

\* the edges u -> v of the adjacency
Edges(adj) == { e \in (DOMAIN adj) \X NodeIds : e[2] \in Succ(adj, e[1]) }

RECURSIVE ReachSet(_, _)
\* the nodes reachable from the set S over zero or more edges
ReachSet(adj, S) ==
    LET T == S \cup { v \in NodeIds : \E u \in S \cap DOMAIN adj : v \in Succ(adj, u) }
    IN  IF T = S THEN S ELSE ReachSet(adj, T)

\* v is reachable from u over zero or more edges
Reachable(adj, u, v) == v \in ReachSet(adj, {u})

\* a occurs before b in the sequence s
Precedes(s, a, b) ==
    \E i, j \in 1 .. Len(s) : i < j /\ s[i] = a /\ s[j] = b

\* s lists exactly the elements of S, each once
IsPermutationOf(s, S) ==
    /\ Len(s) = Cardinality(S)
    /\ { s[i] : i \in 1 .. Len(s) } = S

\* the predecessors of n according to the adjacency
Preds(adj, n) == { u \in DOMAIN adj : n \in Succ(adj, u) }

RECURSIVE SumOver(_, _, _)
\* the sample-wise sum of the buffers bufs[p], p in S, over len samples
SumOver(bufs, S, len) ==
    IF S = {} THEN Zeros(len)
    ELSE LET p    == CHOOSE x \in S : TRUE
             rest == SumOver(bufs, S \ {p}, len)
         IN  [i \in 1 .. len |-> rest[i] + bufs[p][i]]

\* the last operation was add_edge(u, v) and it returned res
AddEdgeReturned(res) == pc = "done" /\ last.op = "add_edge" /\ last.result = res

\* the last process call met the documented preconditions of process
ValidCall ==
    /\ last.op = "process"
    /\ prepared
    /\ process_preconditions(call, nodes, max_buffer_size)

----------------------------------------------------------------------------
(* DirectedGraph properties, checked under SpecDG *)

\* C1: after any sequence of add_node, add_edge, remove_node and remove_edge,
\* successful or failed, the adjacency has no directed cycle and no self-loop:
\* no node is reachable from one of its own successors.
C1_Acyclic ==
    \A u \in GraphKeys :
        \A v \in Succ(graph.adjacency_list, u) :
            ~Reachable(graph.adjacency_list, v, u)

\* C1 witness: on a graph that already holds three edges, add_edge of a
\* back edge (its reverse is an edge) has just been rejected as a cycle.
C1_Witness ==
    /\ AddEdgeReturned("CycleWouldForm")
    /\ Cardinality(Edges(graph.adjacency_list)) = 3
    /\ last.a \in Succ(graph.adjacency_list, last.b)

\* C2: for present nodes u and v, add_edge(u, v) returns the cycle error
\* exactly when u is reachable from v over the edges before the call (u = v
\* included); otherwise it returns Ok.
C2_CycleIffReachable ==
    [][ ( /\ pc = "idle"
          /\ last'.op = "add_edge"
          /\ last'.a \in GraphKeys
          /\ last'.b \in GraphKeys )
        => IF Reachable(graph.adjacency_list, last'.b, last'.a)
           THEN last'.result = "CycleWouldForm"
           ELSE last'.result = "Ok" ]_vars

\* C2 witness: add_edge(u, v) returned Ok although v was already reachable
\* from u through a third node w: a redundant but acyclic edge is accepted.
C2_Witness ==
    /\ AddEdgeReturned("Ok")
    /\ last.a # last.b
    /\ \E w \in GraphKeys \ {last.a, last.b} :
           /\ w \in Succ(graph.adjacency_list, last.a)
           /\ last.b \in Succ(graph.adjacency_list, w)
    /\ last.b \in Succ(graph.adjacency_list, last.a)

\* C3: whenever add_edge returns an error (missing endpoint or cycle), the
\* adjacency and the three caches are what they were before the call.
C3_ErrorLeavesGraph ==
    [][ ( /\ pc = "idle"
          /\ last'.op = "add_edge"
          /\ last'.result \in {"NodeNotFound", "CycleWouldForm"} )
        => graph' = graph ]_vars

\* C3 witness: on the chain 0 -> 1 -> 2, add_edge(2, 0) has returned the
\* cycle error.
C3_Witness ==
    /\ AddEdgeReturned("CycleWouldForm")
    /\ last.a = 2 /\ last.b = 0
    /\ GraphKeys = {0, 1, 2}
    /\ graph.adjacency_list[0] = << 1 >>
    /\ graph.adjacency_list[1] = << 2 >>

\* C9 as stated: for every edge u -> v, u precedes v in topological_order().
C9_Original ==
    \A e \in Edges(graph.adjacency_list) :
        Precedes(get_topological_order(graph), e[1], e[2])

\* C9 amended: for every edge u -> v, v precedes u in topological_order():
\* the cached topological order lists successors first.
C9_SuccessorsFirst ==
    \A e \in Edges(graph.adjacency_list) :
        Precedes(get_topological_order(graph), e[2], e[1])

\* C9 witness: a graph with the two edges 0 -> 1 and 1 -> 2 whose cached
\* topological order is 2, 1, 0.
C9_Witness ==
    /\ Edges(graph.adjacency_list) = { <<0, 1>>, <<1, 2>> }
    /\ get_topological_order(graph) = << 2, 1, 0 >>

\* C10: reverse_topological_order() is the exact reversal of
\* topological_order(), lists every present node once and no absent node, and
\* lists u before v for every edge u -> v.
C10_ReverseOrder ==
    /\ get_reverse_topological_order(graph) = Reverse(get_topological_order(graph))
    /\ IsPermutationOf(get_reverse_topological_order(graph), GraphKeys)
    /\ \A e \in Edges(graph.adjacency_list) :
           Precedes(get_reverse_topological_order(graph), e[1], e[2])

\* C10 witness: the chain of the test (three nodes, first -> second -> third)
\* whose reverse topological order is first, second, third.
C10_Witness ==
    /\ GraphKeys = {0, 1, 2}
    /\ graph.adjacency_list[0] = << 1 >>
    /\ graph.adjacency_list[1] = << 2 >>
    /\ graph.adjacency_list[2] = << >>
    /\ get_reverse_topological_order(graph) = << 0, 1, 2 >>

\* C11: for every present node v, predecessors_of(v) lists exactly the nodes
\* u that have v in their successor list, each once; predecessors_of of an
\* absent id is empty (so no removed node or edge stays in any list).
C11_PredecessorIndex ==
    /\ \A v \in GraphKeys :
           IsPermutationOf(get_input_node_ids(graph, v),
                           Preds(graph.adjacency_list, v))
    /\ \A v \in NodeIds \ GraphKeys : get_input_node_ids(graph, v) = << >>

\* C11 witness: a removal (of a node or of an edge) has just succeeded on a
\* graph in which some node is left with two predecessors and the removed
\* node or edge is in no predecessor list.
C11_Witness ==
    /\ pc = "done"
    /\ last.op \in {"remove_node", "remove_edge"}
    /\ last.result = "true"
    /\ \E v \in GraphKeys :
           Cardinality(Preds(graph.adjacency_list, v)) = 2
    /\ \A v \in GraphKeys :
           ~Contains(get_input_node_ids(graph, v), last.a)
           \/ (last.op = "remove_edge" /\ v # last.b)

\* C21: add_edge(u, v) returns the node-not-found error, never the cycle
\* error, whenever u or v is not a node of the graph (u = v absent and both
\* absent included): the endpoints are looked up before the cycle check.
C21_NodeNotFoundFirst ==
    [][ ( /\ pc = "idle"
          /\ last'.op = "add_edge"
          /\ \/ last'.a \notin GraphKeys
             \/ last'.b \notin GraphKeys )
        => last'.result = "NodeNotFound" ]_vars

\* C21 witness: add_edge(u, u) with u absent, while another node is present,
\* has returned the node-not-found error.
C21_Witness ==
    /\ AddEdgeReturned("NodeNotFound")
    /\ last.a = last.b
    /\ last.a \notin GraphKeys
    /\ GraphKeys # {}

\* C22: remove_edge(u, v) returns true exactly when the edge u -> v was
\* present; then v leaves u's successor list and every node and every other
\* successor list is kept; when it returns false the adjacency and the caches
\* are unchanged.
C22_RemoveEdgeFrame ==
    [][ ( /\ pc = "idle"
          /\ last'.op = "remove_edge" )
        => LET adj  == graph.adjacency_list
               adj2 == graph'.adjacency_list
               u    == last'.a
               v    == last'.b
               was  == u \in DOMAIN adj /\ Contains(adj[u], v)
           IN  /\ last'.result = BoolStr(was)
               /\ was  => /\ DOMAIN adj2 = DOMAIN adj
                          /\ adj2[u] = RetainNot(adj[u], v)
                          /\ ~Contains(adj2[u], v)
                          /\ \A k \in DOMAIN adj \ {u} : adj2[k] = adj[k]
                          /\ Edges(adj2) = Edges(adj) \ { << u, v >> }
               /\ ~was => graph' = graph ]_vars

\* C22 witness: remove_edge(0, 2) has returned true on a graph that still
\* holds the edges 0 -> 1 and 1 -> 2.
C22_Witness ==
    /\ pc = "done"
    /\ last = Op("remove_edge", 0, 2, "true")
    /\ GraphKeys = {0, 1, 2}
    /\ Edges(graph.adjacency_list) = { << 0, 1 >>, << 1, 2 >> }

\* C24: DirectedGraph add_node(id) returns true and inserts id with no
\* successors when id is absent; when id is present it returns false and
\* leaves the graph, with all edges out of and into id, unchanged.
C24_AddNodeIdempotent ==
    [][ ( /\ pc = "idle"
          /\ last'.op = "add_node" )
        => LET adj  == graph.adjacency_list
               adj2 == graph'.adjacency_list
               id   == last'.a
           IN  IF id \in DOMAIN adj
               THEN /\ last'.result = "false"
                    /\ graph' = graph
               ELSE /\ last'.result = "true"
                    /\ DOMAIN adj2 = DOMAIN adj \cup {id}
                    /\ adj2[id] = << >>
                    /\ \A k \in DOMAIN adj : adj2[k] = adj[k] ]_vars

\* C24 witness: add_node(1) has returned false on a graph in which node 1
\* has an incoming and an outgoing edge.
C24_Witness ==
    /\ pc = "done"
    /\ last = Op("add_node", 1, 1, "false")
    /\ Edges(graph.adjacency_list) = { << 0, 1 >>, << 1, 2 >> }

\* C33: the cached topological order, its reverse and the predecessor lists
\* are a function of the adjacency state alone: whatever order the traversal
\* of the keys took when the caches were built, every other order gives the
\* same caches, so two graphs with equal node sets and equal successor lists
\* have equal caches.
C33_OrderFunctionOfAdjacency ==
    \A iter \in KeyOrders(DOMAIN graph.adjacency_list) :
        /\ graph.cached_topo_sort = topological_sort(graph.adjacency_list, iter)
        /\ graph.cached_reverse_topo_sort
               = Reverse(topological_sort(graph.adjacency_list, iter))
        /\ graph.cached_input_nodes
               = update_input_nodes_cache(graph, iter).cached_input_nodes

\* the nodes named by the successor lists
SuccessorEndpoints(g) ==
    UNION { Succ(g.adjacency_list, u) : u \in DOMAIN g.adjacency_list }

\* the nodes named by the predecessor lists, keys included
PredecessorEndpoints(g) ==
    (DOMAIN g.cached_input_nodes)
        \cup UNION { { g.cached_input_nodes[v][i] :
                          i \in 1 .. Len(g.cached_input_nodes[v]) } :
                     v \in DOMAIN g.cached_input_nodes }

\* C37: after any sequence of DirectedGraph operations every node that occurs
\* in a successor list or in a predecessor list is a node of the graph.
C37_NoDanglingEndpoint ==
    /\ SuccessorEndpoints(graph) \subseteq DOMAIN graph.adjacency_list
    /\ PredecessorEndpoints(graph) \subseteq DOMAIN graph.adjacency_list

\* C37 witness: remove_node(1) has returned on a graph in which node 1 had
\* an incoming edge, from 0, and an outgoing edge, to 2; nodes 0 and 2 remain,
\* with the edge 0 -> 2 between them.
C37_Witness ==
    /\ pc = "done"
    /\ last = Op("remove_node", 1, 1, "true")
    /\ DOMAIN graph.adjacency_list = { 0, 2 }
    /\ Edges(graph.adjacency_list) = { << 0, 2 >> }
    /\ graph.cached_input_nodes = (0 :> << >>) @@ (2 :> << 0 >>)

----------------------------------------------------------------------------
(* Tap pair properties, checked under SpecTap *)

\* the ring of the tap pair
TapRing == rings[tap_in.shared_buffer]

\* the configured delay of tap_out, in frames
TapDelayFrames == delay_frames(tap_out.delay_time_ms, TapRing.sample_rate)

\* the largest delay the ring of tap_in was prepared for, in frames
TapMaxDelayFrames == delay_frames(tap_in.max_delay_time_ms, TapRing.sample_rate)

\* the block of n samples that starts d samples before the end of the samples
\* fed so far, with zeros before the first sample
DelayedBlock(samples, d, n) ==
    [k \in 1 .. n |->
        IF Len(samples) + k - d >= 1 THEN samples[Len(samples) + k - d] ELSE 0]

\* TapOut::process has returned the output of a block of B frames, and every
\* block since the prepare / reset had B frames
TapOutReturned(B) ==
    /\ pc = "tap_out"
    /\ call.frames = B
    /\ tap_history.sizes = {B}

\* C12: with TapOut processed before TapIn in every block of B frames and a
\* delay of D frames, B <= D <= max_delay_frames, the TapOut output at global
\* frame t is the TapIn input of frame t - D, and zero for t < D, also after
\* write_pos and the read position have wrapped around the ring.
C12_DelayLine ==
    \A B \in 0 .. MaxTapFrames :
        ( /\ TapOutReturned(B)
          /\ B <= TapDelayFrames
          /\ TapDelayFrames <= TapMaxDelayFrames )
        => buffer = DelayedBlock(tap_history.samples, 2 * TapDelayFrames, 2 * B)

\* C12 witness: a block of 2 frames read with a delay of 3 frames after more
\* samples were fed than the ring holds (write_pos has wrapped), and the read
\* itself wraps: it starts in the last frame of the ring.
C12_Witness ==
    /\ TapOutReturned(2)
    /\ TapDelayFrames = 3
    /\ TapMaxDelayFrames = 3
    /\ Len(tap_history.samples) > Len(TapRing.data)
    /\ TapOut_read_pos(tap_out, TapRing, [channels |-> 2, frames |-> 2])
           = Len(TapRing.data) - 2
    /\ buffer = DelayedBlock(tap_history.samples, 6, 4)
    /\ \A k \in 1 .. 4 : buffer[k] > 0

\* C13: when the configured delay is smaller than the block's frame count B
\* (B constant, at most the prepared maximum), the TapOut output of a block is
\* the TapIn input of the block before it, and the first block is all zeros.
C13_OneBlockDelay ==
    \A B \in 0 .. MaxTapFrames :
        ( /\ TapOutReturned(B)
          /\ TapDelayFrames < B
          /\ B <= tap_history.max_num_samples )
        => buffer = DelayedBlock(tap_history.samples, 2 * B, 2 * B)

\* C13 witness: a delay of 0 frames, blocks of 2 frames; the output of the
\* third block is the input of the second, and another output was all zeros
\* because it was the first block.
C13_Witness ==
    /\ TapOutReturned(2)
    /\ TapDelayFrames = 0
    /\ Len(tap_history.samples) = 8
    /\ buffer = SubSeq(tap_history.samples, 5, 8)
    /\ \A k \in 1 .. 4 : buffer[k] > 0

\* C29: for every configured delay, every write_pos and every block of 1 to
\* max_frames frames, TapOut process starts reading at
\* (write_pos - delay_samples) mod data.length, an index of the ring, also
\* when the delay is larger than the TapIn's max_delay_time_ms.
C29_ReadInsideRing ==
    \A B \in 1 .. MaxTapFrames :
        ( /\ pc = "idle"
          /\ tap_history.prepared
          /\ B <= tap_history.max_num_samples )
        => LET view == [channels |-> 2, frames |-> B]
               delay_samples ==
                   effective_delay_frames(tap_out, TapRing, B) * view.channels
               read_pos == TapOut_read_pos(tap_out, TapRing, view)
           IN  /\ read_pos = (TapRing.write_pos - delay_samples)
                                 % Len(TapRing.data)
               /\ read_pos \in 0 .. (Len(TapRing.data) - 1)

\* TapIn::process is returning (or panicking) in this step
TapInStep == pc = "tap_out" /\ pc' # "tap_out"

\* the samples TapIn::process is fed in this step
TapInBlock ==
    SubSeq(tap_history'.samples, Len(tap_history.samples) + 1,
           Len(tap_history'.samples))

\* the ring data after the samples of src were stored at consecutive positions
\* from the 0-based position wp on, wrapping to 0 at the end; a position the
\* block reaches more than once keeps the sample stored last
RingAfterWrite(data, wp, src) ==
    [p \in 1 .. Len(data) |->
        LET ks == { k \in 1 .. Len(src) : (wp + k - 1) % Len(data) = p - 1 }
        IN  IF ks = {} THEN data[p]
            ELSE src[CHOOSE k \in ks : \A j \in ks : j <= k]]

\* C31 as stated: after TapIn prepare 0 <= write_pos < data.length in every
\* state; a TapIn process call on F frames of C channels stores the samples of
\* the block in frame-then-channel order at consecutive ring positions from
\* the old write_pos on, wrapping to 0, leaves the other positions unchanged
\* and sets write_pos to (old write_pos + F * C) mod data.length.
C31_WritePosInsideRing ==
    [][ /\ tap_history'.prepared
            => TapRing'.write_pos \in 0 .. (Len(TapRing'.data) - 1)
        /\ TapInStep
            => /\ pc' = "idle"
               /\ TapRing'.data = RingAfterWrite(TapRing.data,
                                                 TapRing.write_pos, TapInBlock)
               /\ TapRing'.write_pos
                      = (TapRing.write_pos + 2 * call.frames)
                            % Len(TapRing.data) ]_vars

\* C31, amended to the rings the code can build: after TapIn prepare
\* 0 <= write_pos <= data.length, with write_pos < data.length unless the ring
\* is empty (max_delay_frames + max_num_samples = 0); on an empty ring process
\* returns only for an empty block and changes nothing; on a ring that is not
\* empty process stores sample k of the block at position
\* (old write_pos + k) mod data.length, leaves the other positions unchanged
\* and sets write_pos to (old write_pos + F * C) mod data.length.
C31_WritePosInsideNonEmptyRing ==
    [][ /\ tap_history'.prepared
            => /\ TapRing'.write_pos \in 0 .. Len(TapRing'.data)
               /\ Len(TapRing'.data) > 0
                      => TapRing'.write_pos < Len(TapRing'.data)
        /\ (TapInStep /\ Len(TapRing.data) = 0)
            => /\ (pc' = "idle") = (call.frames = 0)
               /\ TapRing' = TapRing
        /\ (TapInStep /\ Len(TapRing.data) > 0)
            => /\ pc' = "idle"
               /\ TapRing'.data = RingAfterWrite(TapRing.data,
                                                 TapRing.write_pos, TapInBlock)
               /\ TapRing'.write_pos
                      = (TapRing.write_pos + 2 * call.frames)
                            % Len(TapRing.data) ]_vars

\* C31 witness: TapIn process has returned from a block of 2 frames that it
\* stored across the end of the ring: write_pos has wrapped to the second
\* frame of a ring of 3 frames.
C31_Witness ==
    /\ pc = "idle"
    /\ last = Op("tap_in_process", 2, 2, "Ok")
    /\ Len(TapRing.data) = 6
    /\ TapRing.write_pos = 2
    /\ Len(tap_history.samples) = 8
    /\ SubSeq(TapRing.data, 1, 2) = SubSeq(tap_history.samples, 7, 8)
    /\ SubSeq(TapRing.data, 5, 6) = SubSeq(tap_history.samples, 5, 6)

----------------------------------------------------------------------------
(* ImpulseGenerator properties, checked under SpecImpulse *)

\* a block of the given shape with 1 at frame 0 on all channels, 0 elsewhere
ImpulseBlock(channels, frames) ==
    [i \in 1 .. channels * frames |-> IF i <= channels THEN 1 ELSE 0]

\* ImpulseGenerator::process has just returned
ImpulseReturned == pc = "done" /\ last.op = "impulse_process"

\* C14 as stated: the first process call after construction or a reset writes
\* 1.0 at frame 0 on all channels and 0.0 elsewhere and clears pending; every
\* later call before the next reset writes only zeros.
C14_Original ==
    ImpulseReturned =>
        IF impulse_history.calls = 1
        THEN /\ buffer = ImpulseBlock(call.channels, call.frames)
             /\ ~impulse.impulse_pending
        ELSE buffer = Zeros(call.channels * call.frames)

\* C14 amended: the first process call on a block of at least one frame after
\* construction or a reset writes 1.0 at frame 0 on all channels and 0.0
\* elsewhere and clears pending; every later call on such a block writes only
\* zeros; a call on a block of zero frames writes nothing and leaves pending
\* as it is.
C14_FirstNonEmptyBlock ==
    ImpulseReturned =>
        IF call.frames = 0
        THEN /\ buffer = << >>
             /\ impulse.impulse_pending = (impulse_history.nonempty = 0)
        ELSE /\ ~impulse.impulse_pending
             /\ buffer = IF impulse_history.nonempty = 1
                         THEN ImpulseBlock(call.channels, call.frames)
                         ELSE Zeros(call.channels * call.frames)

\* C14 witness: after a block of zero frames, the second call, on a block of
\* 2 channels and 2 frames, has written the impulse.
C14_Witness ==
    /\ ImpulseReturned
    /\ impulse_history.calls = 2
    /\ impulse_history.nonempty = 1
    /\ call.channels = 2 /\ call.frames = 2
    /\ buffer = << 1, 1, 0, 0 >>
    /\ ~impulse.impulse_pending

\* C4: in a process call, every node n other than the designated input node
\* is handed the sample-wise sum of the outputs its predecessors produced
\* earlier in the same call (zeros when it has none).
C4_FanInOfThisBlock ==
    \A n \in DOMAIN handed :
        n # call.input_node_id =>
            /\ Preds(graph.adjacency_list, n) \subseteq DOMAIN produced
            /\ \A p \in Preds(graph.adjacency_list, n) :
                   Len(produced[p]) = Len(handed[n])
            /\ handed[n] = SumOver(produced, Preds(graph.adjacency_list, n),
                                   Len(handed[n]))

\* C4 witness: a call has returned in which a node that is not the input
\* node has two predecessors, both constant nodes, and was handed their sum.
C4_Witness ==
    /\ pc = "done" /\ last.op = "process"
    /\ \E n \in DOMAIN handed :
           /\ n # call.input_node_id
           /\ Cardinality(Preds(graph.adjacency_list, n)) = 2
           /\ \A p \in Preds(graph.adjacency_list, n) : nodes[p].kind = "TestNode"
           /\ \E v \in TestValues : handed[n] = << 2 * v, 2 * v >>

\* C5: the buffer handed to the designated input node's process holds exactly
\* the samples the caller passed in for this call.
C5_InputNodeGetsHostInput ==
    ( /\ ValidCall
      /\ call.input_node_id \in DOMAIN handed )
    => handed[call.input_node_id] = call.host

\* C6: when process returns for a prepared graph with existing input and
\* output ids, the caller's buffer equals the output the designated output
\* node produced in this call (stated for blocks of at least one frame).
C6_CallerGetsOutputNode ==
    ( /\ pc = "done"
      /\ ValidCall
      /\ call.frames > 0 )
    => /\ call.output_node_id \in DOMAIN produced
       /\ buffer = produced[call.output_node_id]

\* C7: after prepare, a process call with num_channels channels and any
\* frame count from 0 to max_frames completes without fault (stated for
\* graphs in which every node has its output buffer).
C7_AcceptsShorterBlocks ==
    ( /\ ValidCall
      /\ DOMAIN node_outputs = DOMAIN nodes )
    => pc # "fault"

\* C8: once prepare has been called, every NodeId present in nodes has an
\* entry in node_outputs of length num_channels * max_buffer_size.
C8_OutputBufferPerNode ==
    prepared =>
        \A id \in DOMAIN nodes :
            /\ id \in DOMAIN node_outputs
            /\ Len(node_outputs[id]) = num_channels * max_buffer_size

\* C23: AudioGraph remove_node(id) on an absent id returns None and changes
\* nothing; on a present id it returns the node (the one stored under id) and
\* removes the node object, its output buffer, the id from the graph and
\* every edge into or out of id; all other nodes, buffers and edges stay.
C23_RemoveNodeFrame ==
    [][ ( /\ pc = "idle"
          /\ last'.op = "remove_node" )
        => LET adj  == graph.adjacency_list
               adj2 == graph'.adjacency_list
               id   == last'.a
           IN  IF id \notin DOMAIN adj
               THEN /\ last'.result = "false"
                    /\ graph' = graph
                    /\ nodes' = nodes
                    /\ node_outputs' = node_outputs
               ELSE /\ last'.result = "true"
                    /\ id \in DOMAIN nodes
                    /\ nodes' = MapRemove(nodes, id)
                    /\ node_outputs' = MapRemove(node_outputs, id)
                    /\ DOMAIN adj2 = DOMAIN adj \ {id}
                    /\ \A k \in DOMAIN adj2 : adj2[k] = RetainNot(adj[k], id)
                    /\ Edges(adj2) = { e \in Edges(adj) : e[1] # id /\ e[2] # id } ]_vars

\* C23 witness: remove_node(1) has returned the node on a prepared graph; the
\* nodes 0 and 2, their buffers and the edge 0 -> 2 are still there.
C23_Witness ==
    /\ pc = "done"
    /\ last = Op("remove_node", 1, 1, "true")
    /\ prepared
    /\ DOMAIN nodes = {0, 2}
    /\ DOMAIN node_outputs = {0, 2}
    /\ Edges(graph.adjacency_list) = { << 0, 2 >> }

\* no element occurs twice in the sequence
NoDuplicates(s) == \A i, j \in 1 .. Len(s) : s[i] = s[j] => i = j

\* C25: add_edge of an edge that is already present returns Ok and leaves the
\* graph as it was; no successor list and no cached predecessor list ever
\* holds a node twice, so in a process call a predecessor, however often its
\* edge was added, contributes exactly once to the sum its successor is
\* handed.
C25_DuplicateEdgeSuppressed ==
    [][ /\ ( /\ pc = "idle"
             /\ last'.op = "add_edge"
             /\ last'.a \in GraphKeys
             /\ Contains(graph.adjacency_list[last'.a], last'.b) )
           => /\ last'.result = "Ok"
              /\ ~updated'
              /\ graph' = graph
        /\ \A u \in DOMAIN graph'.adjacency_list :
               /\ NoDuplicates(graph'.adjacency_list[u])
               /\ NoDuplicates(get_input_node_ids(graph', u))
        /\ \A n \in DOMAIN handed' :
               ( /\ n # call'.input_node_id
                 /\ Preds(graph'.adjacency_list, n) \subseteq DOMAIN produced'
                 /\ \A p \in Preds(graph'.adjacency_list, n) :
                        Len(produced'[p]) = Len(handed'[n]) )
               => handed'[n] = SumOver(produced', Preds(graph'.adjacency_list, n),
                                       Len(handed'[n])) ]_vars

\* C25 witness: add_edge(0, 1) has returned Ok without touching the graph,
\* the edge 0 -> 1 being there already, on a prepared graph in which node 0
\* is a constant node.
C25_Witness ==
    /\ AddEdgeReturned("Ok")
    /\ ~updated
    /\ last.a = 0 /\ last.b = 1
    /\ graph.adjacency_list[0] = << 1 >>
    /\ prepared
    /\ nodes[0].kind = "TestNode"

\* C30: a process call on a prepared graph (with the documented
\* preconditions met, on a block of max_buffer_size frames) returns after it
\* has called process exactly once on every node of the graph, nodes with no
\* path to the output node included, in the cached reverse topological order.
C30_EveryNodeOnce ==
    ( /\ pc \in {"done", "fault"}
      /\ ValidCall
      /\ call.frames = max_buffer_size )
    => /\ pc = "done"
       /\ invoked = get_reverse_topological_order(graph)
       /\ IsPermutationOf(invoked, DOMAIN nodes)

\* C35: when the designated input node has predecessors, what they produced
\* does not reach the input node: the buffer handed to its process is the
\* caller's buffer as the copy finds it (process has cleared it on entry), with
\* nothing of the summed fan-in left.
C35_InputNodeIgnoresFanIn ==
    ( /\ pc \in {"done", "fault"}
      /\ last.op = "process"
      /\ call.input_node_id \in DOMAIN handed )
    => handed[call.input_node_id] = clear_buffer(call.host)

\* C35 witness: a call with input node 1 has returned; its predecessor, node
\* 0, was processed first and produced 3 on every sample, and node 1 was
\* handed zeros.
C35_Witness ==
    /\ pc = "done"
    /\ last.op = "process"
    /\ call.input_node_id = 1
    /\ get_input_node_ids(graph, 1) = << 0 >>
    /\ invoked = << 0, 1 >>
    /\ produced[0] = << 3, 3 >>
    /\ handed[1] = << 0, 0 >>

\* C36: after any sequence of AudioGraph add_node, remove_node, add_edge,
\* remove_edge and prepare calls (and process calls between them), the keys of
\* nodes are the nodes of the DirectedGraph and the keys of node_outputs are
\* among them.
C36_KeySetsAgree ==
    /\ DOMAIN nodes = GraphKeys
    /\ DOMAIN node_outputs \subseteq GraphKeys

\* C36 witness: remove_node(1) has returned the node on a prepared graph with
\* three nodes that all had output buffers; the nodes 0 and 2 remain in the
\* graph, in nodes and in node_outputs.
C36_Witness ==
    /\ pc = "done"
    /\ last = Op("remove_node", 1, 1, "true")
    /\ prepared
    /\ GraphKeys = { 0, 2 }
    /\ DOMAIN nodes = { 0, 2 }
    /\ DOMAIN node_outputs = { 0, 2 }

\* C15: in a release build, a process call that violates a precondition
\* (channel count other than num_channels, more frames than max_buffer_size,
\* an input or output id that is not a node) does not fault and leaves the
\* caller's buffer all zeros (stated for a prepared graph in which every node
\* has its output buffer, and for blocks of at least max_buffer_size frames).
C15_ReleaseDegradesGracefully ==
    ( /\ last.op = "process"
      /\ ~debug_assertions
      /\ prepared
      /\ DOMAIN node_outputs = DOMAIN nodes
      /\ call.frames >= max_buffer_size
      /\ ~process_preconditions(call, nodes, max_buffer_size) )
    => /\ pc # "fault"
       /\ buffer = Zeros(Len(call.host))

\* C18: every add_node returns a NodeId that no earlier add_node of this
\* graph has returned, whether or not that node has since been removed.
C18_FreshNodeId ==
    [][ ( /\ pc = "idle"
          /\ last'.op = "add_node" )
        => /\ last'.a \notin issued
           /\ issued' = issued \cup {last'.a} ]_vars

\* C18 witness: add_node has returned a third id after the node with the first
\* id was removed; the removed id was not handed out again.
C18_Witness ==
    /\ pc = "done"
    /\ last.op = "add_node"
    /\ last.a = 2
    /\ issued = {0, 1, 2}
    /\ DOMAIN nodes = {1, 2}

----------------------------------------------------------------------------
(* Properties of the AudioGraph built from concrete nodes, checked under     *)
(* SpecEngine                                                               *)

\* C16: process and the node process calls it makes never acquire a lock.
C16_NoLocks ==
    last.op = "process" => locks = 0

\* the length of every buffer the graph and its nodes own, and the key sets
\* of the maps that hold them
BufferSizes ==
    [ node_outputs     |-> [id \in DOMAIN node_outputs |-> Len(node_outputs[id])],
      tmp_input_buffer |-> Len(tmp_input_buffer),
      rings            |-> [r \in RingIds |-> Len(rings[r].data)],
      nodes            |-> DOMAIN nodes ]

C19_ResetIdempotent ==
    [][ ( /\ pc = "idle"
          /\ last'.op = "reset" )
        => /\ AudioGraph_reset(nodes', rings').nodes = nodes'
           /\ AudioGraph_reset(nodes', rings').rings = rings' ]_vars

\* C19 witness: reset has returned on a graph that holds an impulse generator
\* (pending again) and a TapIn whose ring is all zeros with write_pos 0 again,
\* although the TapIn stored a non-zero block, still in its output buffer.
C19_Witness ==
    /\ pc = "done"
    /\ last.op = "reset"
    /\ \E i \in DOMAIN nodes :
           /\ nodes[i].kind = "ImpulseGenerator"
           /\ nodes[i].impulse_pending
    /\ \E t \in DOMAIN nodes \cap DOMAIN node_outputs :
           /\ nodes[t].kind = "TapIn"
           /\ \E k \in 1 .. Len(node_outputs[t]) : node_outputs[t][k] # 0
           /\ rings[nodes[t].shared_buffer].data
                  = Zeros(Len(rings[nodes[t].shared_buffer].data))
           /\ rings[nodes[t].shared_buffer].data # << >>
           /\ rings[nodes[t].shared_buffer].write_pos = 0

\* the node as its constructor and setters made it
FreshNode(node) ==
    IF node.kind = "ImpulseGenerator" THEN ImpulseGenerator_new
    ELSE IF node.kind = "SineGenerator" THEN SineGenerator_new(node.frequency)
    ELSE IF node.kind = "SawGenerator" THEN SawGenerator_new(node.frequency)
    ELSE IF node.kind = "TapIn"
    THEN TapIn_new(node.shared_buffer, node.max_delay_time_ms)
    ELSE IF node.kind = "TapOut"
    THEN TapOut_new(node.shared_buffer, node.delay_time_ms)
    ELSE IF node.kind = "FeedbackSineSubgraph" THEN FeedbackSineSubgraph_new
    ELSE node

\* the buffers and nodes of a freshly constructed graph with the nodes ns (as
\* constructed) and the ids of g, after prepare(sr, max_size)
FreshState(g, ns, sr, max_size) ==
    LET r == AudioGraph_prepare_nodes(
                 [id \in DOMAIN ns |-> FreshNode(ns[id])],
                 [x \in RingIds |-> SharedRingBuffer_default],
                 DOMAIN ns, sr, max_size)
    IN  [ fault |-> FALSE, tmp |-> Zeros(num_channels * max_size),
          outs |-> AudioGraph_prepare_outputs(g, max_size),
          nodes |-> r.nodes, rings |-> r.rings, locks |-> 0,
          handed |-> EmptyMap, produced |-> EmptyMap, invoked |-> << >> ]

\* the buffers and nodes of the graph as a process call finds them
StateOf(ns, rs, outs, tmp) ==
    [ fault |-> FALSE, tmp |-> tmp, outs |-> outs, nodes |-> ns, rings |-> rs,
      locks |-> 0, handed |-> EmptyMap, produced |-> EmptyMap,
      invoked |-> << >> ]

\* what a block of max_size frames with the given ids does on the state st of
\* the graph g: whether it panics and, if it does not, what every node
\* produces and what the caller gets
BlockOutputs(g, st, input_id, output_id, max_size, debug) ==
    LET r == process(g, st,
                     [ channels |-> num_channels, frames |-> max_size,
                       input_node_id |-> input_id, output_node_id |-> output_id,
                       host |-> Zeros(num_channels * max_size) ],
                     max_size, debug)
    IN  IF r.fault
        THEN [fault |-> TRUE, produced |-> EmptyMap, buffer |-> << >>]
        ELSE [fault |-> FALSE, produced |-> r.st.produced, buffer |-> r.buffer]

\* the graphs with the adjacency of g that a fresh construction can yield:
\* its caches are built under some iteration order of its own HashMap
FreshGraphs(g) ==
    { update_cache(g, iter) : iter \in KeyOrders(DOMAIN g.adjacency_list) }

\* C20: right after reset, the next block's output of every node equals the
\* first-block output of a freshly constructed and prepared graph with the
\* same topology and node configuration.
C20_ResetMatchesFresh ==
    [][ ( /\ pc = "idle"
          /\ last'.op = "reset"
          /\ prepared )
        => \A input_id, output_id \in DOMAIN nodes :
           \A fresh \in FreshGraphs(graph) :
               BlockOutputs(graph,
                            StateOf(nodes', rings', node_outputs, tmp_input_buffer),
                            input_id, output_id, max_buffer_size, debug_assertions)
               = BlockOutputs(fresh,
                              FreshState(graph, nodes, sample_rate, max_buffer_size),
                              input_id, output_id, max_buffer_size, debug_assertions) ]_vars

\* C26: every call of AudioGraph prepare(sample_rate, max_frames), the first
\* or a repeated one, stores both parameters, leaves the scratch buffer and
\* the output buffer of every node of the graph with num_channels * max_frames
\* samples, all zero, and leaves every node (and the ring of every TapIn) as
\* one call of its prepare(sample_rate, max_frames) leaves it.
C26_PrepareAll ==
    [][ ( /\ pc = "idle"
          /\ last'.op = "prepare" )
        => LET sr == last'.a
               mx == last'.b
           IN  /\ sample_rate' = sr
               /\ max_buffer_size' = mx
               /\ tmp_input_buffer' = Zeros(num_channels * mx)
               /\ DOMAIN nodes' = DOMAIN nodes
               /\ DOMAIN node_outputs' = DOMAIN nodes
               /\ \A id \in DOMAIN nodes :
                      /\ node_outputs'[id] = Zeros(num_channels * mx)
                      /\ nodes'[id]
                             = AudioGraphNode_prepare(nodes[id], rings, sr, mx).node
                      /\ nodes[id].kind = "TapIn"
                             => rings'[nodes[id].shared_buffer]
                                    = TapIn_prepare(nodes[id],
                                                    rings[nodes[id].shared_buffer],
                                                    sr, mx)
               /\ \A r \in RingIds :
                      ( \A id \in DOMAIN nodes :
                            nodes[id].kind = "TapIn" => nodes[id].shared_buffer # r )
                      => rings'[r] = rings[r] ]_vars

\* C26 witness: a repeated prepare has returned: the sine generator has left
\* phase 0, so blocks were processed since an earlier prepare, and the buffers
\* and the ring of the TapIn are all zeros again.
C26_Witness ==
    /\ pc = "done"
    /\ last.op = "prepare"
    /\ \E s, t \in DOMAIN nodes :
           /\ nodes[s].kind = "SineGenerator"
           /\ nodes[s].phase # 0
           /\ nodes[s].sample_rate = sample_rate
           /\ nodes[t].kind = "TapIn"
           /\ rings[nodes[t].shared_buffer].data
                  = Zeros((delay_frames(nodes[t].max_delay_time_ms, sample_rate)
                           + max_buffer_size) * 2)
    /\ \A id \in DOMAIN nodes :
           node_outputs[id] = Zeros(num_channels * max_buffer_size)

\* C27: in every processing order of a graph the engine accepts, a TapOut
\* comes before the TapIn that shares its ring, whether or not an edge path
\* connects them.
C27_TapOutBeforeTapIn ==
    \A o, i \in DOMAIN nodes :
        ( /\ nodes[o].kind = "TapOut"
          /\ nodes[i].kind = "TapIn"
          /\ nodes[o].shared_buffer = nodes[i].shared_buffer )
        => Precedes(processing_order(graph), o, i)

----------------------------------------------------------------------------
(* FeedbackSineSubgraph properties, checked under SpecFeedback *)

\* the sample the subgraph's chain leaves in its view in step number k
\* (0-based) since new / reset: the sine generator's sample after the gain
FeedbackStepOutput(node, k) ==
    GainProcessor_process(node.gain, << FeedbackSine_sample(k) >>)[1]

----------------------------------------------------------------------------
(* Oscillator properties, checked under SpecOsc *)

\* the node ids of the sequence s
InvokedIn(s) == { s[i] : i \in 1 .. Len(s) }

\* AudioGraph::process is returning in this step
ProcessReturns == pc = "idle" /\ pc' = "done" /\ last'.op = "process"

\* C32: for every frequency and sample rate the setters accept, the phase of a
\* sine or saw generator stays in [0, 1), and after a block of F generated
\* frames it is the old phase advanced F times by frequency / sample_rate
\* mod 1 (phases in units of 1 / sample_rate).
C32_PhaseModOne ==
    [][ \A id \in DOMAIN nodes' :
            nodes'[id].kind \in OscKinds
                => /\ nodes'[id].phase \in 0 .. (nodes'[id].sample_rate - 1)
                   /\ (ProcessReturns /\ id \in InvokedIn(invoked'))
                          => nodes'[id].phase
                                 = (nodes[id].phase
                                        + call'.frames * nodes[id].frequency)
                                       % nodes[id].sample_rate ]_vars

----------------------------------------------------------------------------
(* The steps of one AudioGraph::process walk, checked under SpecEngine *)

RECURSIVE WalkStates(_, _, _, _, _, _)
\* the states of a walk over order, one per step taken: sts ends with the
\* state the next step starts in, and a panic ends the walk
WalkStates(g, order, sts, c, buf, debug) ==
    IF sts[Len(sts)].fault \/ Len(sts) > Len(order) THEN sts
    ELSE WalkStates(g, order,
                    Append(sts, process_node(g, order[Len(sts)], sts[Len(sts)],
                                             c, buf, debug)),
                    c, buf, debug)

\* the states of the walk that the call c starts in this state: the first is
\* the state before the first step
Walk(c) ==
    WalkStates(graph, processing_order(graph),
               << [ fault |-> FALSE, tmp |-> tmp_input_buffer,
                    outs |-> node_outputs, nodes |-> nodes,
                    rings |-> rings, locks |-> 0,
                    handed |-> EmptyMap, produced |-> EmptyMap,
                    invoked |-> << >> ] >>,
               c, clear_buffer(c.host), debug_assertions)

\* the step of node n took the walk from before to after and changed, besides
\* the scratch buffer, only the node n, its output buffer and, when n is a
\* TapIn, the ring it writes
StepFrame(before, after, n) ==
    /\ DOMAIN after.outs = DOMAIN before.outs
    /\ \A m \in DOMAIN before.outs : m # n => after.outs[m] = before.outs[m]
    /\ DOMAIN after.nodes = DOMAIN before.nodes
    /\ \A m \in DOMAIN before.nodes : m # n => after.nodes[m] = before.nodes[m]
    /\ \A r \in RingIds :
           after.rings[r] # before.rings[r]
               => /\ n \in DOMAIN before.nodes
                  /\ before.nodes[n].kind = "TapIn"
                  /\ before.nodes[n].shared_buffer = r

\* C34: within one AudioGraph process call the step that processes node n
\* changes only the scratch buffer, the state of n and the output buffer of n;
\* the output buffer of every other node is left as it was, so the output of
\* a node is the same whenever a later step of the block reads it (a call
\* that fails the entry assertions of a debug build walks no node).
C34_StepFrame ==
    [][ ( /\ pc = "idle"
          /\ last'.op = "process"
          /\ debug_assertions
                 => process_preconditions(call', nodes, max_buffer_size) )
        => \A order \in { processing_order(graph) }, w \in { Walk(call') } :
               /\ \A i \in 1 .. (Len(w) - 1) :
                      StepFrame(w[i], w[i + 1], order[i])
               /\ \A i, j \in 2 .. Len(w) :
                      ( /\ i <= j
                        /\ order[i - 1] \in DOMAIN node_outputs )
                          => w[j].outs[order[i - 1]] = w[i].outs[order[i - 1]]
               /\ node_outputs' = w[Len(w)].outs
               /\ nodes' = w[Len(w)].nodes
               /\ rings' = w[Len(w)].rings ]_vars

\* C34 witness: a process call has walked a graph in which node 0 feeds both
\* node 1 and node 2: its output is not silent, both successors were handed
\* that output, one of them wrote something else over the scratch buffer, and
\* the output buffer of node 0 still holds what node 0 produced.
C34_Witness ==
    /\ pc = "done"
    /\ last.op = "process"
    /\ Edges(graph.adjacency_list) = { << 0, 1 >>, << 0, 2 >> }
    /\ Len(invoked) = 3
    /\ invoked[1] = 0
    /\ \E k \in 1 .. Len(produced[0]) : produced[0][k] # 0
    /\ handed[1] = produced[0]
    /\ handed[2] = produced[0]
    /\ \E m \in { 1, 2 } : produced[m] # handed[m]
    /\ node_outputs[0] = produced[0]

----------------------------------------------------------------------------
(* The AudioEngineService, checked under SpecService *)

\* the operations of the graph the control thread reaches through
\* get_mut_audio_graph
ControlOps == { "prepare", "add_node", "add_edge", "remove_node", "remove_edge",
                "reset" }

\* the callback has been built: the graph is owned by the closure
GraphMoved == service.callback # "none"

\* C38: every process call of the audio callback is made on a graph that
\* start_playback has prepared with the stream's sample rate and block length;
\* once the graph has been moved into the callback it is no longer in the
\* service, get_mut_audio_graph fails, and no prepare or mutation of the
\* control thread is in progress or follows the first process call.
C38_GraphMovedIntoCallback ==
    /\ last.op = "process"
           => /\ service.callback = "live"
              /\ prepared
              /\ sample_rate = ServiceSampleRate
              /\ max_buffer_size = ServiceFrames
    /\ GraphMoved
           => /\ service.audio_graph = "None"
              /\ ~ get_mut_audio_graph(service)
              /\ last.op \notin ControlOps
    /\ (service.calls > 0 \/ last.op = "process") => GraphMoved

\* two callbacks have run on a graph of two connected nodes, and the control
\* thread's next get_mut_audio_graph has panicked
C38_Witness ==
    /\ service.calls = MaxCallbacks
    /\ service.control = "panicked"
    /\ service.audio_graph = "None"
    /\ service.stream = "Some"
    /\ Cardinality(DOMAIN nodes) = 2
    /\ \E u \in DOMAIN graph.adjacency_list : graph.adjacency_list[u] # << >>

----------------------------------------------------------------------------
(* The Mutex of the rings in one AudioGraph::process walk, checked under     *)
(* SpecMutex                                                                *)

\* how often ring is held after the events t[1] .. t[n]
HeldAfter(t, n, ring) ==
    Cardinality({ j \in 1 .. n : t[j] = MutexLock(ring) })
        - Cardinality({ j \in 1 .. n : t[j] = MutexUnlock(ring) })

\* no ring is requested while it is held, and none is released while it is
\* not held
NeverRequestedWhileHeld(t) ==
    \A i \in 1 .. Len(t) :
        HeldAfter(t, i - 1, t[i].ring) = (IF t[i].op = "lock" THEN 0 ELSE 1)

\* nothing is held at the end of t
AllReleased(t) ==
    \A i \in 1 .. Len(t) : HeldAfter(t, Len(t), t[i].ring) = 0

RECURSIVE WalkMutex(_, _, _)
\* the requests and releases of a walk that called the nodes of order
WalkMutex(order, ns, frames) ==
    IF order = << >> THEN << >>
    ELSE AudioGraphNode_process_mutex(ns[Head(order)], frames)
             \o WalkMutex(Tail(order), ns, frames)

\* the lock requests among the events t
Requests(t) == { i \in 1 .. Len(t) : t[i].op = "lock" }

\* C39: in a process walk that returns, the requests and releases of the ring
\* mutexes made by the nodes the walk called, the per-frame loop of the
\* FeedbackSineSubgraph included, are the requests the walk counted; no ring
\* is requested while it is held, and every node has released what it
\* acquired when its process returns.
C39_RingMutexNotRequestedWhileHeld ==
    ( pc = "done" /\ last.op = "process" )
        => /\ \A t \in { WalkMutex(invoked, nodes, call.frames) } :
                  /\ NeverRequestedWhileHeld(t)
                  /\ Cardinality(Requests(t)) = locks
           /\ \A i \in 1 .. Len(invoked) :
                  AllReleased(AudioGraphNode_process_mutex(
                                  nodes[invoked[i]], call.frames))

\* a walk of two frames through a TapOut, a FeedbackSineSubgraph and a TapIn
\* has returned: nine requests
C39_Witness ==
    /\ pc = "done"
    /\ last.op = "process"
    /\ call.frames = 2
    /\ { nodes[invoked[i]].kind : i \in 1 .. Len(invoked) }
           = { "TapIn", "TapOut", "FeedbackSineSubgraph" }
    /\ locks = 9

====
